---- MODULE Spec2Model ----
(***************************************************************************)
(* TrailForge: the map-generation pipeline (Celery task generate_map, the  *)
(* Overpass downloader, the external-tool wrappers) and the artifact       *)
(* server (download_file with HTTP Range support).                         *)
(*                                                                         *)
(* Geometry is in quarter degrees: a coordinate c stands for c/4 degrees,  *)
(* so an area a stands for a/16 square degrees.  On that grid every span,  *)
(* area and area/threshold quotient of the Python code is exact in binary  *)
(* floating point.                                                         *)
(***************************************************************************)
EXTENDS Integers, Sequences, FiniteSets, TLC

VARIABLES
    \* ---- the job queue's result store (celery backend) ----
    state,      \* celery task state of the job
    meta,       \* result.info: progress step, error or return value
    \* ---- the worker executing generate_map ----
    pc,         \* position of the worker in generate_map
    bbox,       \* the task's argument
    idx,        \* download_osm_data: 1-based index of the current tile
    attempt,    \* _download_tile: loop variable of "for attempt in range(2)"
    tile_files, \* download_osm_data: tile paths fetched so far
    fs,         \* the job directory: path -> size in bytes, Absent if no file
    dirs,       \* directories created under DATA_DIR for the job
    log,        \* history: every observable step of the worker, in order
    \* ---- the artifact server (download_file) ----
    store,      \* the job directory as the server sees it: filename -> bytes
    req,        \* the request being handled
    hpc,        \* position of the handler
    resp,       \* the response: status, headers, body streamed so far
    iter,       \* _file_chunk_iterator: file offset and bytes remaining
    trace,      \* history: what the handler examined, in order
    \* ---- one call of _compute_tiles ----
    tiler,      \* its arguments, locals, position and the list it builds
    \* ---- the worker pool's time limits for the running task ----
    limits,     \* "armed", "soft" (soft limit expired) or "hard" (task killed)
    \* ---- the JSON handlers (start_generation, get_status) ----
    api,        \* the request in flight, the handler's position, its response
    \* ---- a second worker, running generate_map for another job ----
    peer,       \* its position, and the files and directories outside the
                \* first job's directory
    \* ---- a client that downloads the artifact in parts ----
    client      \* what it has received so far

pipeVars == <<state, meta, pc, bbox, idx, attempt, tile_files, fs, dirs, log>>
srvVars  == <<store, req, hpc, resp, iter, trace>>
extVars  == <<tiler, limits, api, peer, client>>
vars     == <<state, meta, pc, bbox, idx, attempt, tile_files, fs, dirs, log,
              store, req, hpc, resp, iter, trace, tiler, limits, api,
              peer, client>>

(***************************************************************************)
(* Bounds of the model.                                                    *)
(***************************************************************************)
\* bounding boxes have south = west = 0 and north, east in -MaxSpan..MaxSpan
MaxSpan == 3
\* Range headers are "bytes=" followed by at most MaxTail characters
MaxTail == 4
\* artifacts have 0..MaxFileSize bytes
MaxFileSize == 3
\* routes.py: DOWNLOAD_CHUNK_SIZE = 1024 * 1024, scaled down so that a
\* transfer of a few bytes takes several chunks
DOWNLOAD_CHUNK_SIZE == 2

(***************************************************************************)
(* Program constants.                                                      *)
(***************************************************************************)
\* OVERPASS_TILE_DEG2 = 0.25 square degrees = 4 square quarter degrees
OVERPASS_TILE_DEG2 == 4
\* MAX_BBOX_AREA_DEG2 = 4.0 square degrees = 64 square quarter degrees
MAX_BBOX_AREA_DEG2 == 64
\* download_osm_data: "if os.path.getsize(output_path) < 100"
MIN_OSM_SIZE == 100
\* _download_tile: time.sleep(5) before the retry
RETRY_PAUSE == 5
\* download_osm_data: time.sleep(1) between tiles
TILE_PAUSE == 1

Absent == 0 - 1

(***************************************************************************)
(* Rationals <<n, d>> with d > 0, for tile edges.                          *)
(***************************************************************************)
Rat(n, d) == <<n, d>>
RatLe(a, b)  == a[1] * b[2] <= b[1] * a[2]
RatEq(a, b)  == a[1] * b[2] = b[1] * a[2]
RatMin(a, b) == IF RatLe(a, b) THEN a ELSE b

Abs(x) == IF x < 0 THEN 0 - x ELSE x
Max(a, b) == IF a >= b THEN a ELSE b
Min(a, b) == IF a <= b THEN a ELSE b

(***************************************************************************)
(* schemas.py                                                              *)
(***************************************************************************)
\* BBox.area_deg2
area_deg2(b) == Abs(b.north - b.south) * Abs(b.east - b.west)

\* BBox.validate_area: TRUE iff no ValueError is raised.  1e-6 square
\* degrees is below one grid cell, so on the grid "area < 1e-6" is area = 0.
validate_area(b) ==
    LET area == area_deg2(b)
    IN  ~(area > MAX_BBOX_AREA_DEG2) /\ ~(area < 1)

(***************************************************************************)
(* osm_downloader.py: _compute_tiles                                       *)
(***************************************************************************)
\* math.ceil(p / q) for p > 0, q > 0
CeilDiv(p, q) == (p + q - 1) \div q

\* round(math.sqrt(p / q)) for p >= 0, q > 0: Python rounds a tie to even
RoundSqrt(p, q) ==
    CHOOSE r \in 0..(p + 1) :
        /\ \/ r = 0
           \/ (2*r - 1) * (2*r - 1) * q < 4 * p
           \/ (2*r - 1) * (2*r - 1) * q = 4 * p /\ r % 2 = 0
        /\ \/ 4 * p < (2*r + 1) * (2*r + 1) * q
           \/ 4 * p = (2*r + 1) * (2*r + 1) * q /\ r % 2 = 0

\* "while n_lat * n_lon < num_tiles": the grid <<n_lat, n_lon>> on exit
RECURSIVE GrowGrid(_, _, _)
GrowGrid(n_lat, n_lon, num_tiles) ==
    IF n_lat * n_lon < num_tiles
    THEN IF n_lat <= n_lon
         THEN GrowGrid(n_lat + 1, n_lon, num_tiles)
         ELSE GrowGrid(n_lat, n_lon + 1, num_tiles)
    ELSE <<n_lat, n_lon>>

\* the grid dimensions chosen for a box with total_area > max_tile_area
GridDims(b, max_tile_area) ==
    LET lat_span   == b.north - b.south
        lon_span   == b.east - b.west
        total_area == lat_span * lon_span
        num_tiles  == CeilDiv(total_area, max_tile_area)
        \* aspect = lon_span / lat_span if lat_span > 0 else 1
        an == IF lat_span > 0 THEN lon_span ELSE 1
        ad == IF lat_span > 0 THEN lat_span ELSE 1
        n_lat == Max(1, RoundSqrt(num_tiles * ad, an))
        n_lon == Max(1, RoundSqrt(num_tiles * an, ad))
    IN  GrowGrid(n_lat, n_lon, num_tiles)

\* the tile of row i, column j (0-based) of an n_lat x n_lon grid
TileAt(b, n_lat, n_lon, i, j) ==
    LET lat_span == b.north - b.south
        lon_span == b.east - b.west
    IN  [south |-> Rat(b.south * n_lat + i * lat_span, n_lat),
         west  |-> Rat(b.west * n_lon + j * lon_span, n_lon),
         north |-> RatMin(Rat(b.south * n_lat + (i + 1) * lat_span, n_lat),
                          Rat(b.north, 1)),
         east  |-> RatMin(Rat(b.west * n_lon + (j + 1) * lon_span, n_lon),
                          Rat(b.east, 1))]

\* _compute_tiles(bbox, max_tile_area): the list of tiles, row-major
_compute_tiles(b, max_tile_area) ==
    LET lat_span   == b.north - b.south
        lon_span   == b.east - b.west
        total_area == lat_span * lon_span
    IN  IF total_area <= max_tile_area
        THEN << [south |-> Rat(b.south, 1), west |-> Rat(b.west, 1),
                 north |-> Rat(b.north, 1), east |-> Rat(b.east, 1)] >>
        ELSE LET g == GridDims(b, max_tile_area)
             IN  [k \in 1..(g[1] * g[2]) |->
                     TileAt(b, g[1], g[2], (k - 1) \div g[2], (k - 1) % g[2])]

(***************************************************************************)
(* osm_downloader.py: _compute_tiles, statement by statement               *)
(***************************************************************************)
\* no call of _compute_tiles is in progress
NoCall ==
    [pc |-> "idle", bbox |-> [south |-> 0, west |-> 0, north |-> 0, east |-> 0],
     max_tile_area |-> 0, n_lat |-> 0, n_lon |-> 0, num_tiles |-> 0,
     i |-> 0, j |-> 0, tiles |-> <<>>]

\* a box as an element of the returned list
AsTile(b) ==
    [south |-> Rat(b.south, 1), west |-> Rat(b.west, 1),
     north |-> Rat(b.north, 1), east |-> Rat(b.east, 1)]

\* "n_lat = max(1, round(math.sqrt(num_tiles / aspect)))" and
\* "n_lon = max(1, round(math.sqrt(num_tiles * aspect)))", where
\* aspect = lon_span / lat_span if lat_span > 0 else 1
FirstDims(lat_span, lon_span, num_tiles) ==
    LET an == IF lat_span > 0 THEN lon_span ELSE 1
        ad == IF lat_span > 0 THEN lat_span ELSE 1
    IN  <<Max(1, RoundSqrt(num_tiles * ad, an)),
          Max(1, RoundSqrt(num_tiles * an, ad))>>

\* mutant of GrowOnce: the larger dimension is incremented
GrowOnceLarger(n_lat, n_lon) ==
    IF n_lat >= n_lon THEN <<n_lat + 1, n_lon>> ELSE <<n_lat, n_lon + 1>>

\* the body of "while n_lat * n_lon < num_tiles"
GrowOnce(n_lat, n_lon) ==
    IF n_lat <= n_lon THEN <<n_lat + 1, n_lon>> ELSE <<n_lat, n_lon + 1>>

\* _compute_tiles from its first statement to the loop: the early return of
\* [bbox], or num_tiles and the first grid dimensions
TilesEntry ==
    /\ tiler.pc = "entry"
    /\ LET b          == tiler.bbox
           lat_span   == b.north - b.south
           lon_span   == b.east - b.west
           total_area == lat_span * lon_span
           num_tiles  == CeilDiv(total_area, tiler.max_tile_area)
           d          == FirstDims(lat_span, lon_span, num_tiles)
       IN  IF total_area <= tiler.max_tile_area
           THEN tiler' = [tiler EXCEPT !.pc = "returned", !.tiles = <<AsTile(b)>>]
           ELSE tiler' = [tiler EXCEPT !.pc = "loop", !.num_tiles = num_tiles,
                                       !.n_lat = d[1], !.n_lon = d[2]]
    /\ UNCHANGED <<pipeVars, srvVars, limits, api, peer, client>>

\* one test of "while n_lat * n_lon < num_tiles" and, if it holds, the body
TilesGrow ==
    /\ tiler.pc = "loop"
    /\ IF tiler.n_lat * tiler.n_lon < tiler.num_tiles
       THEN LET d == GrowOnce(tiler.n_lat, tiler.n_lon)
            IN  tiler' = [tiler EXCEPT !.n_lat = d[1], !.n_lon = d[2]]
       ELSE \* lat_step, lon_step; tiles = []; the first i and j
            tiler' = [tiler EXCEPT !.pc = "rows", !.i = 0, !.j = 0, !.tiles = <<>>]
    /\ UNCHANGED <<pipeVars, srvVars, limits, api, peer, client>>

\* "for i in range(n_lat): for j in range(n_lon): tiles.append({...})":
\* one append, then the next j or the next i
TilesAppend ==
    /\ tiler.pc = "rows"
    /\ tiler.i < tiler.n_lat
    /\ tiler' = [tiler EXCEPT
                   !.tiles = Append(tiler.tiles,
                                    TileAt(tiler.bbox, tiler.n_lat, tiler.n_lon,
                                           tiler.i, tiler.j)),
                   !.i = IF tiler.j + 1 < tiler.n_lon THEN tiler.i ELSE tiler.i + 1,
                   !.j = IF tiler.j + 1 < tiler.n_lon THEN tiler.j + 1 ELSE 0]
    /\ UNCHANGED <<pipeVars, srvVars, limits, api, peer, client>>

\* "return tiles" when range(n_lat) is exhausted
TilesReturn ==
    /\ tiler.pc = "rows"
    /\ tiler.i >= tiler.n_lat
    /\ tiler' = [tiler EXCEPT !.pc = "returned"]
    /\ UNCHANGED <<pipeVars, srvVars, limits, api, peer, client>>

(***************************************************************************)
(* Values of the pipeline model.                                           *)
(***************************************************************************)
\* result.info / meta of the task, as get_status reads it
NoMeta == [kind |-> "none", type |-> "", text |-> "", i |-> 0, n |-> 0]
StepMeta(text, i, n) ==
    [kind |-> "step", type |-> "", text |-> text, i |-> i, n |-> n]
ErrMeta(err) ==
    [kind |-> "error", type |-> err.type, text |-> err.text, i |-> 0, n |-> 0]
ResultMeta(filename) ==
    [kind |-> "result", type |-> "", text |-> filename, i |-> 0, n |-> 0]

\* the exceptions the pipeline raises
UpstreamError  == [type |-> "httpx.HTTPError", text |-> "overpass request failed"]
MergeError     == [type |-> "RuntimeError", text |-> "osmium merge failed"]
EmptyError     == [type |-> "ValueError", text |-> "Downloaded OSM data is too small"]
NoOutputError  == [type |-> "FileNotFoundError", text |-> "map.osm: no such file"]
ConvertError   == [type |-> "RuntimeError", text |-> "osmium convert failed"]
SplitError     == [type |-> "RuntimeError", text |-> "Splitter failed"]
NoTilesError   == [type |-> "FileNotFoundError", text |-> "No PBF tiles found from splitter"]
MkgmapError    == [type |-> "RuntimeError", text |-> "mkgmap failed"]
MissingArtifactError ==
    [type |-> "FileNotFoundError", text |-> "mkgmap did not produce gmapsupp.img"]
ToolTimeout(tool) == [type |-> "subprocess.TimeoutExpired", text |-> tool]

\* paths inside the job directory
MapOsm       == <<"map.osm", 0>>
TilePath(k)  == <<"tiles/tile_NNN.osm", k>>
MapPbf       == <<"map.osm.pbf", 0>>
SplitPbf     == <<"splitter_output/*.osm.pbf", 0>>
TemplateArgs == <<"splitter_output/template.args", 0>>
ImgPath      == <<"gmapsupp.img", 0>>

FileSize(f, p) == IF p \in DOMAIN f THEN f[p] ELSE Absent
IsFile(f, p)   == p \in DOMAIN f
\* open(p, "wb").write(...) or a tool's -o p --overwrite
Put(f, p, size) == [q \in (DOMAIN f) \cup {p} |-> IF q = p THEN size ELSE f[q]]

\* one entry of the history
Ev(e, s, i, n, files) == [ev |-> e, s |-> s, i |-> i, n |-> n, files |-> files]
Emit(text, i, n) == Ev("emit", text, i, n, <<>>)
Call(step)       == Ev("call", step, 0, 0, <<>>)
Ret(step)        == Ev("ret", step, 0, 0, <<>>)

\* the sizes an Overpass response or a merged file may have
RespSizes == {MIN_OSM_SIZE - 1, MIN_OSM_SIZE}

\* the requests a job may have been enqueued with
BBoxes ==
    { b \in [south : {0}, west : {0},
             north : (0 - MaxSpan)..MaxSpan, east : (0 - MaxSpan)..MaxSpan] :
        validate_area(b) }

Tiles  == _compute_tiles(bbox, OVERPASS_TILE_DEG2)
NTiles == Len(Tiles)
\* download_osm_data: where the current tile is written
Dest == IF NTiles = 1 THEN MapOsm ELSE TilePath(idx)

(***************************************************************************)
(* The job queue (celery): update_state, and what it records when the task *)
(* raises or returns.                                                      *)
(***************************************************************************)
\* self.update_state(state="PROGRESS", meta={"step": msg})
UpdateState(text, i, n) ==
    /\ state' = "PROGRESS"
    /\ meta' = StepMeta(text, i, n)

\* mutant of Raise: the failure is recorded without the error's description
RaiseGeneric(err, evs) ==
    /\ state' = "FAILURE"
    /\ meta' = ErrMeta([type |-> "Exception", text |-> "task failed"])
    /\ pc' = "done"
    /\ log' = log \o evs \o <<Ev("raise", err.text, 0, 0, <<>>)>>

\* an exception leaves generate_map ("except Exception as e: raise e"):
\* celery stores FAILURE with the exception; evs are the steps before it
Raise(err, evs) ==
    /\ state' = "FAILURE"
    /\ meta' = ErrMeta(err)
    /\ pc' = "done"
    /\ log' = log \o evs \o <<Ev("raise", err.text, 0, 0, <<>>)>>

(***************************************************************************)
(* The worker: generate_map                                                *)
(***************************************************************************)
\* task_track_started=True: the worker records STARTED when it picks the job
TaskStarted ==
    /\ pc = "queued"
    /\ state' = "STARTED"
    /\ pc' = "started"
    /\ UNCHANGED <<meta, bbox, idx, attempt, tile_files, fs, dirs, log>>
    /\ UNCHANGED <<srvVars, extVars>>

\* generate_map up to the call of download_osm_data
BeginDownload ==
    /\ pc = "started"
    /\ dirs' = dirs \cup {"job"}
    /\ UpdateState("Downloading OSM data...", 0, 0)
    /\ log' = log \o <<Ev("mkdir", "job", 0, 0, <<>>),
                       Emit("Downloading OSM data...", 0, 0),
                       Call("download")>>
    /\ pc' = "dl_entry"
    /\ UNCHANGED <<bbox, idx, attempt, tile_files, fs>>
    /\ UNCHANGED <<srvVars, extVars>>

\* download_osm_data, len(tiles) == 1: progress, then _download_tile
DownloadSingle ==
    /\ pc = "dl_entry"
    /\ NTiles = 1
    /\ UpdateState("Downloading OSM data...", 0, 0)
    /\ log' = log \o <<Emit("Downloading OSM data...", 0, 0),
                       Ev("tile", "call", 1, 1, <<>>)>>
    /\ idx' = 1
    /\ attempt' = 0
    /\ pc' = "fetch"
    /\ UNCHANGED <<bbox, tile_files, fs, dirs>>
    /\ UNCHANGED <<srvVars, extVars>>

\* download_osm_data, several tiles: the scratch directory, tile_files = []
DownloadMulti ==
    /\ pc = "dl_entry"
    /\ NTiles # 1
    /\ dirs' = dirs \cup {"tiles"}
    /\ tile_files' = <<>>
    /\ idx' = 1
    /\ log' = Append(log, Ev("mkdir", "tiles", 0, 0, <<>>))
    /\ pc' = "tile_head"
    /\ UNCHANGED <<state, meta, bbox, attempt, fs>>
    /\ UNCHANGED <<srvVars, extVars>>

\* "for idx, tile in enumerate(tiles, 1)": progress, then _download_tile
TileHead ==
    /\ pc = "tile_head"
    /\ UpdateState("Downloading tile i/N...", idx, NTiles)
    /\ log' = log \o <<Emit("Downloading tile i/N...", idx, NTiles),
                       Ev("tile", "call", idx, NTiles, <<>>)>>
    /\ attempt' = 0
    /\ pc' = "fetch"
    /\ UNCHANGED <<bbox, idx, tile_files, fs, dirs>>
    /\ UNCHANGED <<srvVars, extVars>>

\* _download_tile: client.post(...) is sent
FetchStart ==
    /\ pc = "fetch"
    /\ log' = Append(log, Ev("fetch", "start", idx, attempt, <<>>))
    /\ pc' = "fetching"
    /\ UNCHANGED <<state, meta, bbox, idx, attempt, tile_files, fs, dirs>>
    /\ UNCHANGED <<srvVars, extVars>>

\* mutant of AfterTile: the pause is taken after the last tile too
AfterTilePauseAlways(n, i) ==
    IF n = 1 THEN "size_check" ELSE "tile_sleep"

\* where download_osm_data continues when _download_tile has returned
AfterTile(n, i) ==
    IF n = 1 THEN "size_check"
    ELSE IF i < n THEN "tile_sleep" ELSE "merge"

\* _download_tile: the response is good; it is written and the call returns
FetchOk ==
    /\ pc = "fetching"
    /\ \E size \in RespSizes :
          /\ fs' = Put(fs, Dest, size)
          /\ log' = log \o <<Ev("fetch", "ok", idx, attempt, <<>>),
                             Ev("write", Dest[1], Dest[2], size, <<>>),
                             Ev("tile", "ret", idx, NTiles, <<>>)>>
    /\ tile_files' = IF NTiles = 1 THEN tile_files
                     ELSE Append(tile_files, TilePath(idx))
    /\ pc' = AfterTile(NTiles, idx)
    /\ UNCHANGED <<state, meta, bbox, idx, attempt, dirs>>
    /\ UNCHANGED <<srvVars, extVars>>

\* mutant of OnFetchError: "for attempt in range(3)"
OnFetchErrorRetryTwice(att) == IF att <= 1 THEN "retry" ELSE "raise"

\* _download_tile: what "except (httpx.HTTPError, httpx.TimeoutException)"
\* does on the given attempt: "retry" (sleep, next attempt) or "raise"
OnFetchError(att) == IF att = 0 THEN "retry" ELSE "raise"

\* _download_tile: the request fails (transport error or error status)
FetchFail ==
    /\ pc = "fetching"
    /\ IF OnFetchError(attempt) = "retry"
       THEN /\ log' = Append(log, Ev("fetch", "fail", idx, attempt, <<>>))
            /\ pc' = "retry_sleep"
            /\ UNCHANGED <<state, meta>>
       ELSE Raise(UpstreamError, <<Ev("fetch", "fail", idx, attempt, <<>>)>>)
    /\ UNCHANGED <<bbox, idx, attempt, tile_files, fs, dirs>>
    /\ UNCHANGED <<srvVars, extVars>>

\* _download_tile: time.sleep(5), then the next attempt
RetrySleep ==
    /\ pc = "retry_sleep"
    /\ log' = Append(log, Ev("sleep", "retry", idx, RETRY_PAUSE, <<>>))
    /\ attempt' = attempt + 1
    /\ pc' = "fetch"
    /\ UNCHANGED <<state, meta, bbox, idx, tile_files, fs, dirs>>
    /\ UNCHANGED <<srvVars, extVars>>

\* download_osm_data: "if idx < len(tiles): time.sleep(1)", next tile
TileSleep ==
    /\ pc = "tile_sleep"
    /\ log' = Append(log, Ev("sleep", "tile", idx, TILE_PAUSE, <<>>))
    /\ idx' = idx + 1
    /\ pc' = "tile_head"
    /\ UNCHANGED <<state, meta, bbox, attempt, tile_files, fs, dirs>>
    /\ UNCHANGED <<srvVars, extVars>>

\* download_osm_data: progress, then "osmium merge" is started
MergeStart ==
    /\ pc = "merge"
    /\ UpdateState("Merging N tiles...", 0, NTiles)
    /\ log' = log \o <<Emit("Merging N tiles...", 0, NTiles),
                       Ev("merge", "start", 0, 0, tile_files)>>
    /\ pc' = "merging"
    /\ UNCHANGED <<bbox, idx, attempt, tile_files, fs, dirs>>
    /\ UNCHANGED <<srvVars, extVars>>

\* osmium merge exits 0; what it left at map.osm is the tool's business
MergeOk ==
    /\ pc = "merging"
    /\ \E size \in RespSizes \cup {Absent} :
          /\ fs' = IF size = Absent THEN fs ELSE Put(fs, MapOsm, size)
          /\ log' = log \o <<Ev("merge", "ok", 0, 0, <<>>)>>
                        \o (IF size = Absent THEN <<>>
                            ELSE <<Ev("write", MapOsm[1], 0, size, <<>>)>>)
    /\ pc' = "size_check"
    /\ UNCHANGED <<state, meta, bbox, idx, attempt, tile_files, dirs>>
    /\ UNCHANGED <<srvVars, extVars>>

\* osmium merge exits non-zero, or subprocess.run times out
MergeFail ==
    /\ pc = "merging"
    /\ \E err \in {MergeError, ToolTimeout("osmium merge")} :
          Raise(err, <<Ev("merge", "fail", 0, 0, <<>>)>>)
    /\ UNCHANGED <<bbox, idx, attempt, tile_files, fs, dirs>>
    /\ UNCHANGED <<srvVars, extVars>>

\* mutant of SizeVerdict: the threshold is off by one
SizeVerdictLenient(size) ==
    IF size = Absent THEN "oserror"
    ELSE IF size < MIN_OSM_SIZE - 1 THEN "empty" ELSE "ok"

\* download_osm_data: what the final size check does with a file of the
\* given size (Absent: os.path.getsize raises)
SizeVerdict(size) ==
    IF size = Absent THEN "oserror"
    ELSE IF size < MIN_OSM_SIZE THEN "empty" ELSE "ok"

\* download_osm_data: the size check and the return to generate_map
SizeCheck ==
    /\ pc = "size_check"
    /\ LET v == SizeVerdict(FileSize(fs, MapOsm))
       IN  IF v = "ok"
           THEN /\ log' = Append(log, Ret("download"))
                /\ pc' = "convert"
                /\ UNCHANGED <<state, meta>>
           ELSE Raise(IF v = "empty" THEN EmptyError ELSE NoOutputError, <<>>)
    /\ UNCHANGED <<bbox, idx, attempt, tile_files, fs, dirs>>
    /\ UNCHANGED <<srvVars, extVars>>

(***************************************************************************)
(* map_compiler.py, as generate_map drives it                              *)
(***************************************************************************)
\* generate_map: progress, then convert_to_pbf starts "osmium sort"
ConvertStart ==
    /\ pc = "convert"
    /\ UpdateState("Converting to PBF...", 0, 0)
    /\ log' = log \o <<Emit("Converting to PBF...", 0, 0), Call("convert")>>
    /\ pc' = "converting"
    /\ UNCHANGED <<bbox, idx, attempt, tile_files, fs, dirs>>
    /\ UNCHANGED <<srvVars, extVars>>

\* mutant of ConvertOk: generate_map goes on to run_mkgmap, skipping the split
ConvertOkSkipsSplit ==
    /\ pc = "converting"
    /\ fs' = Put(fs, MapPbf, 1)
    /\ log' = log \o <<Ev("write", MapPbf[1], 0, 1, <<>>), Ret("convert")>>
    /\ pc' = "compile"
    /\ UNCHANGED <<state, meta, bbox, idx, attempt, tile_files, dirs>>
    /\ UNCHANGED <<srvVars, extVars>>

\* convert_to_pbf: returncode == 0, the path is returned
ConvertOk ==
    /\ pc = "converting"
    /\ fs' = Put(fs, MapPbf, 1)
    /\ log' = log \o <<Ev("write", MapPbf[1], 0, 1, <<>>), Ret("convert")>>
    /\ pc' = "split"
    /\ UNCHANGED <<state, meta, bbox, idx, attempt, tile_files, dirs>>
    /\ UNCHANGED <<srvVars, extVars>>

\* mutant of ConvertFail: the except block removes the job directory
ConvertFailRemovesDir ==
    /\ pc = "converting"
    /\ \E err \in {ConvertError, ToolTimeout("osmium sort")} : Raise(err, <<>>)
    /\ fs' = <<>>
    /\ dirs' = {}
    /\ UNCHANGED <<bbox, idx, attempt, tile_files>>
    /\ UNCHANGED <<srvVars, extVars>>

\* convert_to_pbf: returncode != 0 (RuntimeError), or subprocess.run times out
ConvertFail ==
    /\ pc = "converting"
    /\ \E err \in {ConvertError, ToolTimeout("osmium sort")} : Raise(err, <<>>)
    /\ UNCHANGED <<bbox, idx, attempt, tile_files, fs, dirs>>
    /\ UNCHANGED <<srvVars, extVars>>

\* generate_map: progress, then run_splitter makes its directory and starts
SplitStart ==
    /\ pc = "split"
    /\ UpdateState("Splitting map tiles...", 0, 0)
    /\ dirs' = dirs \cup {"splitter_output"}
    /\ log' = log \o <<Emit("Splitting map tiles...", 0, 0), Call("split"),
                       Ev("mkdir", "splitter_output", 0, 0, <<>>)>>
    /\ pc' = "splitting"
    /\ UNCHANGED <<bbox, idx, attempt, tile_files, fs>>
    /\ UNCHANGED <<srvVars, extVars>>

\* run_splitter: returncode == 0; the tiles and the manifest it wrote, if any
SplitOk ==
    /\ pc = "splitting"
    /\ \E pbf \in BOOLEAN, tmpl \in BOOLEAN :
          LET f1 == IF pbf THEN Put(fs, SplitPbf, 1) ELSE fs
              f2 == IF tmpl THEN Put(f1, TemplateArgs, 1) ELSE f1
          IN  /\ fs' = f2
              /\ log' = log
                   \o (IF pbf THEN <<Ev("write", SplitPbf[1], 0, 1, <<>>)>> ELSE <<>>)
                   \o (IF tmpl THEN <<Ev("write", TemplateArgs[1], 0, 1, <<>>)>> ELSE <<>>)
                   \o <<Ret("split")>>
    /\ pc' = "compile"
    /\ UNCHANGED <<state, meta, bbox, idx, attempt, tile_files, dirs>>
    /\ UNCHANGED <<srvVars, extVars>>

\* run_splitter: returncode != 0 (RuntimeError), or subprocess.run times out
SplitFail ==
    /\ pc = "splitting"
    /\ \E err \in {SplitError, ToolTimeout("splitter")} : Raise(err, <<>>)
    /\ UNCHANGED <<bbox, idx, attempt, tile_files, fs, dirs>>
    /\ UNCHANGED <<srvVars, extVars>>

\* generate_map: progress, then run_mkgmap globs the splitter's output
CompileStart ==
    /\ pc = "compile"
    /\ UpdateState("Compiling Garmin IMG...", 0, 0)
    /\ log' = log \o <<Emit("Compiling Garmin IMG...", 0, 0), Call("compile")>>
    /\ pc' = "mkgmap_glob"
    /\ UNCHANGED <<bbox, idx, attempt, tile_files, fs, dirs>>
    /\ UNCHANGED <<srvVars, extVars>>

\* run_mkgmap: "if not pbf_files: raise FileNotFoundError", else mkgmap starts
MkgmapGlob ==
    /\ pc = "mkgmap_glob"
    /\ IF IsFile(fs, SplitPbf)
       THEN \* "-c template.args" if the manifest exists, else the tile files
            /\ log' = Append(log, Ev("mkgmap",
                                     IF IsFile(fs, TemplateArgs)
                                     THEN "-c template.args" ELSE "tiles",
                                     0, 0, <<>>))
            /\ pc' = "mkgmap_run"
            /\ UNCHANGED <<state, meta>>
       ELSE Raise(NoTilesError, <<>>)
    /\ UNCHANGED <<bbox, idx, attempt, tile_files, fs, dirs>>
    /\ UNCHANGED <<srvVars, extVars>>

\* the sizes a compiled artifact may have
ImgSizes == {0, 1}

\* run_mkgmap: returncode == 0; whether gmapsupp.img was written is mkgmap's
MkgmapOk ==
    /\ pc = "mkgmap_run"
    /\ \E size \in ImgSizes \cup {Absent} :
          /\ fs' = IF size = Absent THEN fs ELSE Put(fs, ImgPath, size)
          /\ log' = log
                \o (IF size = Absent THEN <<>>
                    ELSE <<Ev("write", ImgPath[1], 0, size, <<>>)>>)
                \o <<Ret("compile")>>
    /\ pc' = "artifact_check"
    /\ UNCHANGED <<state, meta, bbox, idx, attempt, tile_files, dirs>>
    /\ UNCHANGED <<srvVars, extVars>>

\* run_mkgmap: returncode != 0 (RuntimeError), or subprocess.run times out
MkgmapFail ==
    /\ pc = "mkgmap_run"
    /\ \E err \in {MkgmapError, ToolTimeout("mkgmap")} : Raise(err, <<>>)
    /\ UNCHANGED <<bbox, idx, attempt, tile_files, fs, dirs>>
    /\ UNCHANGED <<srvVars, extVars>>

\* mutant of ArtifactOk: the check is left out
ArtifactOkAlways(f) == TRUE

\* generate_map: "if not os.path.isfile(img_path): raise FileNotFoundError"
ArtifactOk(f) == IsFile(f, ImgPath)

\* generate_map: the artifact check; on success the task returns and celery
\* stores SUCCESS with the return value
ArtifactCheck ==
    /\ pc = "artifact_check"
    /\ IF ArtifactOk(fs)
       THEN /\ state' = "SUCCESS"
            /\ meta' = ResultMeta("gmapsupp.img")
            /\ log' = Append(log, Ev("return", "gmapsupp.img", 0, 0, <<>>))
            /\ pc' = "done"
       ELSE Raise(MissingArtifactError, <<>>)
    /\ UNCHANGED <<bbox, idx, attempt, tile_files, fs, dirs>>
    /\ UNCHANGED <<srvVars, extVars>>

(***************************************************************************)
(* The pipeline's specification: one job, enqueued with a validated box.   *)
(***************************************************************************)
\* a JobStatus or GenerateResponse body, or an error's detail, with its
\* HTTP status; None is Absent or ""
NoBody ==
    [code |-> 0, job_id |-> "", status |-> "", progress |-> NoMeta,
     error |-> "", filename |-> "", file_size |-> Absent, detail |-> ""]

\* no JSON request in flight
NoApi ==
    [hpc |-> "idle", kind |-> "", job_id |-> "",
     box |-> [south |-> 0, west |-> 0, north |-> 0, east |-> 0],
     at_start |-> "", resp |-> NoBody, last |-> 0, enqueued |-> 0]

\* no second worker: nothing outside the first job's directory
NoPeer == [pc |-> "none", files |-> <<>>, dirs |-> {}, seen |-> Absent]

\* no client is downloading
NoClient ==
    [phase |-> "none", whole |-> <<>>, size |-> 0, have |-> <<>>,
     last |-> 0, parts |-> 0]

SrvIdle ==
    /\ store = <<>>
    /\ req = [filename |-> "", range |-> <<>>]
    /\ hpc = "idle"
    /\ resp = [status |-> 0, detail |-> "",
               content_range |-> [kind |-> "none", start |-> 0, end |-> 0, size |-> 0],
               content_length |-> Absent, path |-> "", body |-> <<>>, chunks |-> <<>>]
    /\ iter = [pos |-> 0, remaining |-> 0]
    /\ trace = <<>>

Init ==
    /\ state = "PENDING"
    /\ meta = NoMeta
    /\ pc = "queued"
    /\ bbox \in BBoxes
    /\ idx = 0
    /\ attempt = 0
    /\ tile_files = <<>>
    /\ fs = <<>>
    /\ dirs = {}
    /\ log = <<>>
    /\ SrvIdle
    /\ tiler = NoCall
    /\ limits = "armed"
    /\ api = NoApi
    /\ peer = NoPeer
    /\ client = NoClient

Next ==
    \/ TaskStarted
    \/ BeginDownload
    \/ DownloadSingle
    \/ DownloadMulti
    \/ TileHead
    \/ FetchStart
    \/ FetchOk
    \/ FetchFail
    \/ RetrySleep
    \/ TileSleep
    \/ MergeStart
    \/ MergeOk
    \/ MergeFail
    \/ SizeCheck
    \/ ConvertStart
    \/ ConvertOk
    \/ ConvertFail
    \/ SplitStart
    \/ SplitOk
    \/ SplitFail
    \/ CompileStart
    \/ MkgmapGlob
    \/ MkgmapOk
    \/ MkgmapFail
    \/ ArtifactCheck

Spec == Init /\ [][Next]_vars

(***************************************************************************)
(* Reading the history.                                                    *)
(***************************************************************************)
Pos(e, s)    == {k \in DOMAIN log : log[k].ev = e /\ log[k].s = s}
PosI(e, s, i) == {k \in Pos(e, s) : log[k].i = i}
Has(e, s)    == Pos(e, s) # {}
IsEv(k, e, s) == k \in DOMAIN log /\ log[k].ev = e /\ log[k].s = s

StepOrder == <<"download", "convert", "split", "compile">>
IsCall(e) == e.ev = "call"
\* the steps generate_map has started, in order
Started == [k \in DOMAIN SelectSeq(log, IsCall) |-> SelectSeq(log, IsCall)[k].s]

\* the pipeline state a poller derives from the job queue's record
PipelineState(st, m) ==
    CASE st \in {"PENDING", "STARTED"} -> "Queued"
      [] st = "SUCCESS" -> "Completed"
      [] st = "FAILURE" -> "Failed"
      [] st = "PROGRESS" /\ m.text = "Converting to PBF..." -> "Converting"
      [] st = "PROGRESS" /\ m.text = "Splitting map tiles..." -> "Splitting"
      [] st = "PROGRESS" /\ m.text = "Compiling Garmin IMG..." -> "Compiling"
      [] OTHER -> "Downloading"

Rank(ps) ==
    CASE ps = "Queued" -> 0
      [] ps = "Downloading" -> 1
      [] ps = "Converting" -> 2
      [] ps = "Splitting" -> 3
      [] ps = "Compiling" -> 4
      [] ps = "Completed" -> 5
      [] OTHER -> 6

Terminal(ps) == ps \in {"Completed", "Failed"}

(***************************************************************************)
(* C1                                                                      *)
(***************************************************************************)
\* every step of the job moves the pipeline state nowhere, to its successor
\* or to Failed, and leaves a terminal state as it is
ForwardStep ==
    LET p == PipelineState(state, meta)
        q == PipelineState(state', meta')
    IN  /\ Terminal(p) => (state' = state /\ meta' = meta)
        /\ ~Terminal(p) => \/ q = p
                           \/ Rank(q) = Rank(p) + 1
                           \/ q = "Failed"

\* the steps started so far are an initial part of download, convert, split,
\* compile (so none is started twice), each after its predecessor returned,
\* and the pipeline state names the step started last
StepsInOrder ==
    /\ Len(Started) <= Len(StepOrder)
    /\ \A k \in DOMAIN Started : Started[k] = StepOrder[k]
    /\ \A k \in 2..Len(Started) :
          \E r \in Pos("ret", StepOrder[k - 1]) :
             \A c \in Pos("call", StepOrder[k]) : r < c
    /\ Rank(PipelineState(state, meta)) \in 1..4
          => Len(Started) = Rank(PipelineState(state, meta))
    /\ PipelineState(state, meta) = "Queued" => Started = <<>>
    /\ PipelineState(state, meta) = "Completed" => Started = StepOrder

\* C1: in every execution of generate_map the pipeline state only moves
\* forward along Queued, Downloading, Converting, Splitting, Compiling,
\* Completed; each step is started at most once and only after its
\* predecessor returned; no state is skipped or re-entered; Completed and
\* Failed never change again.
C1_ForwardOnly == [][ForwardStep]_vars /\ []StepsInOrder

C1_Witness == state = "SUCCESS" /\ Started = StepOrder

(***************************************************************************)
(* C2                                                                      *)
(***************************************************************************)
\* the errors each step can raise
StepErrors(step) ==
    CASE step = "download" ->
            {UpstreamError.text, MergeError.text, EmptyError.text,
             NoOutputError.text, ToolTimeout("osmium merge").text}
      [] step = "convert" -> {ConvertError.text, ToolTimeout("osmium sort").text}
      [] step = "split" -> {SplitError.text, ToolTimeout("splitter").text}
      [] OTHER -> {NoTilesError.text, MkgmapError.text, ToolTimeout("mkgmap").text,
                   MissingArtifactError.text}

\* C2: when a step raises, the job is Failed with that error's description
\* recorded, the error is one of the raising step's, and nothing is invoked
\* after it.
C2_FailureStops ==
    /\ \A k \in DOMAIN log :
          log[k].ev = "raise" =>
             /\ k = Len(log)
             /\ state = "FAILURE"
             /\ meta.kind = "error"
             /\ meta.text = log[k].s
             /\ Started # <<>>
             /\ log[k].s \in StepErrors(Started[Len(Started)])
    /\ state = "FAILURE" => log # <<>> /\ log[Len(log)].ev = "raise"

C2_Witness ==
    /\ state = "FAILURE"
    /\ meta.text = ConvertError.text
    /\ Started = <<"download", "convert">>

(***************************************************************************)
(* C3                                                                      *)
(***************************************************************************)
\* run_mkgmap has returned and generate_map has made its artifact check
CompileChecked == Has("ret", "compile") /\ pc = "done"

\* C3: the job is Completed only if gmapsupp.img exists after the compile
\* step returned; a compile step that returned without leaving the artifact
\* ends the job Failed with the missing-artifact error.
C3_CompletedHasArtifact ==
    /\ state = "SUCCESS" => Has("ret", "compile") /\ IsFile(fs, ImgPath)
    /\ CompileChecked /\ ~IsFile(fs, ImgPath) =>
          /\ state = "FAILURE"
          /\ meta.text = MissingArtifactError.text

C3_Witness ==
    /\ CompileChecked
    /\ ~IsFile(fs, ImgPath)
    /\ state = "FAILURE"

(***************************************************************************)
(* C4                                                                      *)
(***************************************************************************)
\* where tile i of the current job is written
DestOf(i) == IF NTiles = 1 THEN MapOsm ELSE TilePath(i)

\* tile i's file was written (by FetchOk) somewhere in the history
Written(i) ==
    \E k \in DOMAIN log :
       log[k].ev = "write" /\ log[k].s = DestOf(i)[1] /\ log[k].i = DestOf(i)[2]

\* C4: _download_tile makes at most two attempts for a tile; the second
\* follows a failed first attempt and one pause; a failure followed by a
\* success returns with the data at the destination; two failures raise the
\* upstream error and this call has written nothing at the destination.
C4_RetryOnce ==
    \A i \in 1..idx :
       /\ Cardinality(PosI("fetch", "start", i)) <= 2
       /\ Cardinality(PosI("sleep", "retry", i)) <= 1
       /\ \A k \in PosI("fetch", "start", i) :
             /\ log[k].n \in {0, 1}
             /\ \A k2 \in PosI("fetch", "start", i) : log[k2].n = log[k].n => k2 = k
             /\ log[k].n = 0 => IsEv(k - 1, "tile", "call") /\ log[k - 1].i = i
             /\ log[k].n = 1 =>
                   /\ IsEv(k - 1, "sleep", "retry") /\ log[k - 1].n = RETRY_PAUSE
                   /\ IsEv(k - 2, "fetch", "fail")
                   /\ log[k - 2].i = i /\ log[k - 2].n = 0
       /\ \A k \in PosI("fetch", "fail", i) :
             /\ log[k].n = 0 =>
                   /\ k < Len(log) => IsEv(k + 1, "sleep", "retry")
                   /\ k + 1 < Len(log) =>
                         /\ IsEv(k + 2, "fetch", "start")
                         /\ log[k + 2].i = i /\ log[k + 2].n = 1
             /\ log[k].n = 1 =>
                   /\ IsEv(k + 1, "raise", UpstreamError.text)
                   /\ state = "FAILURE" /\ meta = ErrMeta(UpstreamError)
                   /\ ~Written(i)
                   /\ ~IsFile(fs, DestOf(i))
       /\ \A k \in PosI("fetch", "ok", i) :
             /\ IsEv(k + 1, "write", DestOf(i)[1]) /\ log[k + 1].i = DestOf(i)[2]
             /\ IsEv(k + 2, "tile", "ret") /\ log[k + 2].i = i
             /\ FileSize(fs, DestOf(i)) = log[k + 1].n

\* a first attempt failed and the retry succeeded
C4_Witness ==
    \E k \in Pos("fetch", "fail") :
       /\ log[k].n = 0
       /\ IsEv(k + 3, "fetch", "ok")
       /\ log[k + 3].n = 1
       /\ IsEv(k + 5, "tile", "ret")

\* both attempts failed
C4_WitnessTwoFailures ==
    \E k \in Pos("fetch", "fail") : log[k].n = 1 /\ state = "FAILURE"

(***************************************************************************)
(* C5                                                                      *)
(***************************************************************************)
TileEmits == Pos("emit", "Downloading tile i/N...")
AllTileFiles == [i \in 1..NTiles |-> TilePath(i)]

\* C5: with N > 1 tiles the progress events "Downloading tile i/N..." come
\* in ascending order, each before the fetch of its tile; fetches do not
\* overlap; one pause separates consecutive tiles and none follows the
\* last; the merge is invoked once, with all N tile files, after every tile
\* was fetched; after a tile failed twice no tile is fetched and nothing is
\* merged.
C5_Sequential ==
    NTiles > 1 =>
       /\ \A e \in TileEmits :
             /\ log[e].n = NTiles
             /\ log[e].i = Cardinality({j \in TileEmits : j <= e})
             /\ log[e].i > 1 =>
                   /\ IsEv(e - 1, "sleep", "tile")
                   /\ log[e - 1].i = log[e].i - 1
       /\ \A k \in Pos("fetch", "start") :
             /\ \E e \in TileEmits :
                   /\ e < k
                   /\ log[e].i = log[k].i
                   /\ \A e2 \in TileEmits : e2 < k => e2 <= e
             /\ k < Len(log) =>
                   /\ log[k + 1].ev = "fetch"
                   /\ log[k + 1].s \in {"ok", "fail"}
                   /\ log[k + 1].i = log[k].i
                   /\ log[k + 1].n = log[k].n
       /\ \A k \in Pos("sleep", "tile") :
             /\ log[k].n = TILE_PAUSE
             /\ log[k].i < NTiles
             /\ IsEv(k - 1, "tile", "ret") /\ log[k - 1].i = log[k].i
             /\ \A k2 \in Pos("sleep", "tile") : log[k2].i = log[k].i => k2 = k
       /\ Cardinality(Pos("merge", "start")) <= 1
       /\ \A m \in Pos("merge", "start") :
             /\ log[m].files = AllTileFiles
             /\ Cardinality(Pos("sleep", "tile")) = NTiles - 1
             /\ \A i \in 1..NTiles :
                   /\ \E k \in PosI("fetch", "ok", i) : k < m
                   /\ IsFile(fs, TilePath(i))
       /\ \A k \in Pos("fetch", "fail") :
             log[k].n = 1 =>
                /\ \A j \in Pos("fetch", "start") : j < k
                /\ ~Has("merge", "start")

C5_Witness == NTiles > 2 /\ Has("merge", "start") /\ Has("sleep", "retry")

\* a tile of a multi-tile job failed twice after an earlier tile succeeded
C5_WitnessAbort ==
    /\ NTiles > 1
    /\ \E k \in Pos("fetch", "fail") : log[k].n = 1 /\ log[k].i > 1

(***************************************************************************)
(* C6                                                                      *)
(***************************************************************************)
\* the worker is inside download_osm_data or has not reached it
DownloadPcs ==
    {"queued", "started", "dl_entry", "tile_head", "fetch", "fetching",
     "retry_sleep", "tile_sleep", "merge", "merging", "size_check"}

\* C6: download_osm_data returns only with a map.osm of at least the minimum
\* size; a smaller file raises the empty-result error (a ValueError, neither
\* the transport nor the merge error), the job is Failed and convert is
\* never started.
C6_MinSize ==
    /\ Has("ret", "download") =>
          IsFile(fs, MapOsm) /\ FileSize(fs, MapOsm) >= MIN_OSM_SIZE
    /\ Has("call", "convert") => Has("ret", "download")
    /\ (pc \notin DownloadPcs /\ IsFile(fs, MapOsm)
            /\ FileSize(fs, MapOsm) < MIN_OSM_SIZE) =>
          /\ state = "FAILURE"
          /\ meta = ErrMeta(EmptyError)
          /\ meta.type \notin {UpstreamError.type, MergeError.type}
          /\ ~Has("call", "convert")

\* multi-tile path: the merged file is too small
C6_Witness ==
    /\ NTiles > 1
    /\ Has("merge", "ok")
    /\ state = "FAILURE"
    /\ meta = ErrMeta(EmptyError)

\* single-tile path: the downloaded file is too small
C6_WitnessSingle ==
    /\ NTiles = 1
    /\ state = "FAILURE"
    /\ meta = ErrMeta(EmptyError)

(***************************************************************************)
(* routes.py: the artifact server                                          *)
(***************************************************************************)
\* a header is the sequence of its characters; <<>> is an absent or empty
\* Range header ("if not range_header" treats both alike)
Digits == {"0", "1", "2", "3", "4", "5", "6", "7", "8", "9"}
DigitVal(c) ==
    CASE c = "0" -> 0 [] c = "1" -> 1 [] c = "2" -> 2 [] c = "3" -> 3
      [] c = "4" -> 4 [] c = "5" -> 5 [] c = "6" -> 6 [] c = "7" -> 7
      [] c = "8" -> 8 [] OTHER -> 9

\* int(s) for a non-empty string of decimal digits
RECURSIVE ToInt(_)
ToInt(ds) ==
    IF ds = <<>> THEN 0
    ELSE 10 * ToInt(SubSeq(ds, 1, Len(ds) - 1)) + DigitVal(ds[Len(ds)])

BytesEq == <<"b", "y", "t", "e", "s", "=">>

\* the number of digits h has from position p on (what \d* consumes there)
RECURSIVE DigitRun(_, _)
DigitRun(h, p) ==
    IF p <= Len(h) /\ h[p] \in Digits THEN 1 + DigitRun(h, p + 1) ELSE 0

\* re.match(r"bytes=(\d+)-(\d*)", range_header): the match is anchored at the
\* start of the header only.  <<matched, group(1), group(2)>>
ReMatch(h) ==
    LET n1 == DigitRun(h, Len(BytesEq) + 1)
        dash == Len(BytesEq) + n1 + 1
        n2 == DigitRun(h, dash + 1)
    IN  IF /\ Len(h) >= Len(BytesEq)
           /\ SubSeq(h, 1, Len(BytesEq)) = BytesEq
           /\ n1 >= 1
           /\ dash <= Len(h)
           /\ h[dash] = "-"
        THEN <<TRUE, SubSeq(h, Len(BytesEq) + 1, dash - 1),
                     SubSeq(h, dash + 1, dash + n2)>>
        ELSE <<FALSE, <<>>, <<>>>>

NoRange == [kind |-> "none", start |-> 0, end |-> 0, size |-> 0]

\* mutant of Unsatisfiable: "end > file_size"
UnsatisfiableOffByOne(start, end, file_size) ==
    start >= file_size \/ end > file_size \/ start > end

\* "if start >= file_size or end >= file_size or start > end"
Unsatisfiable(start, end, file_size) ==
    start >= file_size \/ end >= file_size \/ start > end

\* mutant of _parse_range: END is taken as the first byte not wanted
_parse_range_exclusive(range_header, file_size) ==
    LET m == ReMatch(range_header)
        start == ToInt(m[2])
        end == IF m[3] # <<>> THEN ToInt(m[3]) - 1 ELSE file_size - 1
    IN  IF ~m[1]
        THEN [ok |-> FALSE, status |-> 416, detail |-> "Invalid Range header",
              start |-> 0, end |-> 0, content_range |-> NoRange]
        ELSE IF Unsatisfiable(start, end, file_size)
        THEN [ok |-> FALSE, status |-> 416, detail |-> "Range not satisfiable",
              start |-> 0, end |-> 0,
              content_range |-> [kind |-> "unsatisfied", start |-> 0, end |-> 0,
                                 size |-> file_size]]
        ELSE [ok |-> TRUE, status |-> 206, detail |-> "",
              start |-> start, end |-> end, content_range |-> NoRange]

\* _parse_range(range_header, file_size): (start, end), or the HTTPException
_parse_range(range_header, file_size) ==
    LET m == ReMatch(range_header)
        start == ToInt(m[2])
        end == IF m[3] # <<>> THEN ToInt(m[3]) ELSE file_size - 1
    IN  IF ~m[1]
        THEN [ok |-> FALSE, status |-> 416, detail |-> "Invalid Range header",
              start |-> 0, end |-> 0, content_range |-> NoRange]
        ELSE IF Unsatisfiable(start, end, file_size)
        THEN [ok |-> FALSE, status |-> 416, detail |-> "Range not satisfiable",
              start |-> 0, end |-> 0,
              content_range |-> [kind |-> "unsatisfied", start |-> 0, end |-> 0,
                                 size |-> file_size]]
        ELSE [ok |-> TRUE, status |-> 206, detail |-> "",
              start |-> start, end |-> end, content_range |-> NoRange]

\* mutant of FilenameOk: the check is left out
FilenameOkAny(filename) == TRUE

\* download_file: 'if filename != "gmapsupp.img"' does not raise
FilenameOk(filename) == filename = "gmapsupp.img"

\* mutant of ReadChunk: f.read(DOWNLOAD_CHUNK_SIZE)
ReadChunkFull(content, pos, remaining) ==
    SubSeq(content, pos + 1, Min(Len(content), pos + DOWNLOAD_CHUNK_SIZE))

\* _file_chunk_iterator: f.read(min(DOWNLOAD_CHUNK_SIZE, remaining)) at
\* offset pos of a file with the given content
ReadChunk(content, pos, remaining) ==
    SubSeq(content, pos + 1, Min(Len(content), pos + Min(DOWNLOAD_CHUNK_SIZE, remaining)))

NoResp ==
    [status |-> 0, detail |-> "", content_range |-> NoRange,
     content_length |-> Absent, path |-> "", body |-> <<>>, chunks |-> <<>>]

\* raise HTTPException(status_code=..., detail=..., headers=...)
HttpError(status, detail, content_range) ==
    [NoResp EXCEPT !.status = status, !.detail = detail,
                   !.content_range = content_range]

\* a client sends GET /download/{job_id}/{filename}
Request(filename, range) ==
    /\ hpc = "idle"
    /\ req' = [filename |-> filename, range |-> range]
    /\ resp' = NoResp
    /\ iter' = [pos |-> 0, remaining |-> 0]
    /\ trace' = <<>>
    /\ hpc' = "check_name"
    /\ UNCHANGED store
    /\ UNCHANGED <<pipeVars, extVars>>

\* download_file: the filename check
CheckName ==
    /\ hpc = "check_name"
    /\ IF FilenameOk(req.filename)
       THEN /\ hpc' = "check_file"
            /\ UNCHANGED resp
       ELSE /\ resp' = HttpError(400, "Invalid filename", NoRange)
            /\ hpc' = "done"
    /\ UNCHANGED <<store, req, iter, trace>>
    /\ UNCHANGED <<pipeVars, extVars>>

\* download_file: "if not os.path.isfile(file_path)"
CheckFile ==
    /\ hpc = "check_file"
    /\ trace' = Append(trace, "isfile")
    /\ IF req.filename \in DOMAIN store
       THEN /\ hpc' = "range"
            /\ UNCHANGED resp
       ELSE /\ resp' = HttpError(404, "File not found", NoRange)
            /\ hpc' = "done"
    /\ UNCHANGED <<store, req, iter>>
    /\ UNCHANGED <<pipeVars, extVars>>

\* download_file from os.path.getsize on: the full response, the 416, or the
\* 206 whose body is the iterator created here
Respond ==
    /\ hpc = "range"
    /\ LET file_size == Len(store[req.filename])
           range_header == req.range
           r == _parse_range(range_header, file_size)
       IN  IF range_header = <<>>
           THEN /\ resp' = [NoResp EXCEPT !.status = 200,
                                          !.content_length = file_size,
                                          !.path = req.filename,
                                          !.body = store[req.filename]]
                /\ trace' = trace \o <<"getsize", "range_header">>
                /\ hpc' = "done"
                /\ UNCHANGED iter
           ELSE IF ~r.ok
           THEN /\ resp' = HttpError(r.status, r.detail, r.content_range)
                /\ trace' = trace \o <<"getsize", "range_header", "parse">>
                /\ hpc' = "done"
                /\ UNCHANGED iter
           ELSE /\ resp' = [NoResp EXCEPT
                              !.status = 206,
                              !.content_range =
                                  [kind |-> "range", start |-> r.start,
                                   end |-> r.end, size |-> file_size],
                              !.content_length = r.end - r.start + 1,
                              !.path = req.filename]
                /\ trace' = trace \o <<"getsize", "range_header", "parse">>
                \* open(path, "rb"); f.seek(start); remaining = end - start + 1
                /\ iter' = [pos |-> r.start, remaining |-> r.end - r.start + 1]
                /\ hpc' = "stream"
    /\ UNCHANGED <<store, req>>
    /\ UNCHANGED <<pipeVars, extVars>>

\* _file_chunk_iterator: one turn of "while remaining > 0", or the end
NextChunk ==
    /\ hpc = "stream"
    /\ LET chunk == ReadChunk(store[resp.path], iter.pos, iter.remaining)
       IN  IF iter.remaining > 0 /\ chunk # <<>>
           THEN /\ iter' = [pos |-> iter.pos + Len(chunk),
                            remaining |-> iter.remaining - Len(chunk)]
                /\ resp' = [resp EXCEPT !.body = resp.body \o chunk,
                                        !.chunks = Append(resp.chunks, Len(chunk))]
                /\ hpc' = "stream"
           ELSE /\ hpc' = "done"
                /\ UNCHANGED <<iter, resp>>
    /\ UNCHANGED <<store, req, trace>>
    /\ UNCHANGED <<pipeVars, extVars>>

(***************************************************************************)
(* The artifact server's specification: a job directory that does not      *)
(* change, and one download request against it (the handler changes        *)
(* nothing a later request could see).                                     *)
(***************************************************************************)
\* the bytes of a file: every offset of the artifact holds its own value,
\* and no byte of another file is a byte of the artifact
Content(filename, n) ==
    [k \in 1..n |-> IF filename = "gmapsupp.img" THEN (k - 1) % 128
                    ELSE 128 + ((k - 1) % 128)]

\* the 1000-byte file of the specification's examples
ExampleSize == 10 * 10 * 10

\* the sequences over S of length at most n
SeqsUpTo(S, n) == UNION {[1..k -> S] : k \in 0..n}

TailChars == {"0", "1", "2", "-", ","}

\* Range headers sent against a small artifact
Headers ==
    {<<>>}
    \cup {BytesEq \o t : t \in SeqsUpTo(TailChars, MaxTail)}
    \cup { <<"b", "i", "t", "s", "=", "0", "-", "1">>,
           <<"b", "y", "t", "e", "s", "0", "-", "1">>,
           <<" ", "b", "y", "t", "e", "s", "=", "0", "-", "1">>,
           <<"b", "y", "t", "e", "s", "=", "0", "-", "0", ",", "2", "-", "2">>,
           <<"b", "y", "t", "e", "s", "=", "0", "-", "1", " ">> }

\* Range headers sent against the 1000-byte artifact
ExampleHeaders ==
    { <<"b", "y", "t", "e", "s", "=", "0", "-", "9", "9">>,
      <<"b", "y", "t", "e", "s", "=", "9", "0", "0", "-">>,
      <<"b", "y", "t", "e", "s", "=", "1", "0", "0", "0", "-", "1", "0", "0", "5">>,
      <<"b", "y", "t", "e", "s", "=", "5", "0", "0", "-", "1", "0", "0">>,
      <<"b", "y", "t", "e", "s", "=", "0", "-", "9", "9", ",",
        "2", "0", "0", "-", "2", "9", "9">> }

Filenames == {"gmapsupp.img", "map.osm", "missing.bin"}

\* job directories: the artifact absent or present, beside a raw-data file
Stores ==
    LET raw == [f \in {"map.osm"} |-> Content("map.osm", 2)]
        img(n) == [f \in {"gmapsupp.img"} |-> Content("gmapsupp.img", n)]
    IN  {<<>>, raw}
        \cup {img(n) : n \in (0..MaxFileSize) \cup {ExampleSize}}
        \cup {img(n) @@ raw : n \in 0..MaxFileSize}

ArtifactSize == IF "gmapsupp.img" \in DOMAIN store
                THEN Len(store["gmapsupp.img"]) ELSE Absent

PipeIdle ==
    /\ state = "PENDING"
    /\ meta = NoMeta
    /\ pc = "queued"
    /\ bbox = [south |-> 0, west |-> 0, north |-> 1, east |-> 1]
    /\ idx = 0
    /\ attempt = 0
    /\ tile_files = <<>>
    /\ fs = <<>>
    /\ dirs = {}
    /\ log = <<>>

InitRange ==
    /\ PipeIdle
    /\ store \in Stores
    /\ req = [filename |-> "", range |-> <<>>]
    /\ hpc = "idle"
    /\ resp = NoResp
    /\ iter = [pos |-> 0, remaining |-> 0]
    /\ trace = <<>>
    /\ tiler = NoCall
    /\ limits = "armed"
    /\ api = NoApi
    /\ peer = NoPeer
    /\ client = NoClient

\* the requests of the model: the example headers go with the example file
Receive ==
    /\ hpc = "idle"
    /\ \E filename \in Filenames :
          \E range \in (IF ArtifactSize = ExampleSize THEN ExampleHeaders ELSE Headers) :
             Request(filename, range)

NextRange ==
    \/ Receive
    \/ CheckName
    \/ CheckFile
    \/ Respond
    \/ NextChunk

SpecRange == InitRange /\ [][NextRange]_vars

\* the server keeps pulling the response iterator until it ends
SpecRangeLive == SpecRange /\ WF_vars(NextChunk)

(***************************************************************************)
(* Reading a request and its response.                                     *)
(***************************************************************************)
\* the whole header is bytes=START-END or bytes=START-
WellFormed(h) ==
    /\ Len(h) >= Len(BytesEq) + 2
    /\ SubSeq(h, 1, Len(BytesEq)) = BytesEq
    /\ \E p \in (Len(BytesEq) + 2)..Len(h) :
          /\ h[p] = "-"
          /\ \A k \in (Len(BytesEq) + 1)..(p - 1) : h[k] \in Digits
          /\ \A k \in (p + 1)..Len(h) : h[k] \in Digits

\* START and END of a well-formed header, END resolved against the size
DashPos(h) == CHOOSE p \in 1..Len(h) : h[p] = "-"
HeaderStart(h) == ToInt(SubSeq(h, Len(BytesEq) + 1, DashPos(h) - 1))
HeaderEnd(h, size) ==
    IF DashPos(h) = Len(h) THEN size - 1
    ELSE ToInt(SubSeq(h, DashPos(h) + 1, Len(h)))

\* _parse_range has been called for the request and has returned or raised
Parsed ==
    /\ hpc \in {"stream", "done"}
    /\ trace # <<>>
    /\ trace[Len(trace)] = "parse"

Canonical == "gmapsupp.img"

(***************************************************************************)
(* C7                                                                      *)
(***************************************************************************)
\* C7: _parse_range accepts a Range header only if the whole header is
\* bytes=START-END or bytes=START-; any other header is rejected as
\* malformed and no partial content is served for it.
C7_OnlyExactForms ==
    (Parsed /\ ~WellFormed(req.range)) =>
       /\ resp.status = 416
       /\ resp.content_range.kind # "range"
       /\ resp.body = <<>>

(***************************************************************************)
(* C8                                                                      *)
(***************************************************************************)
\* C8: for a well-formed header and a file of S bytes, _parse_range resolves
\* an omitted END to S-1 and returns (START, END) iff 0 <= START <= END < S;
\* otherwise the response is 416 with Content-Range: bytes */S.  On the
\* 1000-byte file bytes=0-99 gives (0,99), bytes=900- gives (900,999),
\* bytes=1000-1005 and bytes=500-100 are unsatisfiable; with S = 0 every
\* range is unsatisfiable.
C8_RangeResolution ==
    (Parsed /\ WellFormed(req.range)) =>
       LET S  == ArtifactSize
           st == HeaderStart(req.range)
           en == HeaderEnd(req.range, S)
           h  == req.range
       IN  /\ IF 0 <= st /\ st <= en /\ en < S
              THEN /\ resp.status = 206
                   /\ resp.content_range =
                         [kind |-> "range", start |-> st, end |-> en, size |-> S]
              ELSE /\ resp.status = 416
                   /\ resp.detail = "Range not satisfiable"
                   /\ resp.content_range =
                         [kind |-> "unsatisfied", start |-> 0, end |-> 0, size |-> S]
           /\ S = 0 => resp.status = 416
           /\ S = ExampleSize =>
                 /\ h = BytesEq \o <<"0", "-", "9", "9">> =>
                       /\ resp.status = 206
                       /\ resp.content_range.start = 0
                       /\ resp.content_range.end = 99
                 /\ h = BytesEq \o <<"9", "0", "0", "-">> =>
                       /\ resp.status = 206
                       /\ resp.content_range.start = 900
                       /\ resp.content_range.end = 999
                 /\ h = BytesEq \o <<"1", "0", "0", "0", "-", "1", "0", "0", "5">> =>
                       resp.status = 416
                 /\ h = BytesEq \o <<"5", "0", "0", "-", "1", "0", "0">> =>
                       resp.status = 416

C8_Witness ==
    /\ Parsed
    /\ ArtifactSize = ExampleSize
    /\ req.range = BytesEq \o <<"9", "0", "0", "-">>
    /\ resp.content_range.end = 999

\* a range whose END is the file size is refused
C8_WitnessUnsatisfiable ==
    /\ Parsed
    /\ WellFormed(req.range)
    /\ ArtifactSize > 0
    /\ HeaderStart(req.range) < ArtifactSize
    /\ HeaderEnd(req.range, ArtifactSize) = ArtifactSize
    /\ resp.status = 416

(***************************************************************************)
(* C9                                                                      *)
(***************************************************************************)
\* what has been streamed so far is the file from START on, never past END
StreamExact ==
    resp.status = 206 =>
       LET content == store[req.filename]
           st == resp.content_range.start
           en == resp.content_range.end
       IN  /\ resp.content_range.kind = "range"
           /\ resp.content_range.size = Len(content)
           /\ resp.content_length = en - st + 1
           /\ Len(resp.body) <= en - st + 1
           /\ resp.body = SubSeq(content, st + 1, st + Len(resp.body))
           /\ \A k \in DOMAIN resp.chunks :
                 resp.chunks[k] >= 1 /\ resp.chunks[k] <= DOWNLOAD_CHUNK_SIZE
           /\ hpc = "stream" => iter.remaining = en - st + 1 - Len(resp.body)
           /\ hpc = "done" =>
                 /\ Len(resp.body) = resp.content_length
                 /\ resp.body = SubSeq(content, st + 1, en + 1)

\* C9: for an accepted range on an unchanged file the chunk iterator
\* terminates, having yielded in order exactly the bytes START..END, in
\* chunks of at most the chunk size; their number is END-START+1, the
\* Content-Length of the 206 response with Content-Range START-END/size.
C9_StreamExact == []StreamExact /\ ((hpc = "stream") ~> (hpc = "done"))

\* a transfer of several chunks that stops before the end of the file
C9_Witness ==
    /\ hpc = "done"
    /\ resp.status = 206
    /\ Len(resp.chunks) >= 2
    /\ resp.content_range.end < resp.content_range.size - 1

(***************************************************************************)
(* C10                                                                     *)
(***************************************************************************)
BytesOf(f) == {store[f][k] : k \in DOMAIN store[f]}

\* C10: a request for another filename is answered 400, whether or not the
\* file exists, before the file system or the Range header is examined; for
\* the canonical filename an absent artifact is answered 404 before any
\* Range processing; no response holds bytes of another file.
C10_CanonicalOnly ==
    /\ (hpc \notin {"idle", "check_name"} /\ req.filename # Canonical) =>
          /\ hpc = "done"
          /\ resp.status = 400
          /\ trace = <<>>
          /\ resp.body = <<>>
    /\ (hpc \notin {"idle", "check_name", "check_file"}
            /\ req.filename = Canonical /\ Canonical \notin DOMAIN store) =>
          /\ hpc = "done"
          /\ resp.status = 404
          /\ trace = <<"isfile">>
          /\ resp.body = <<>>
    /\ resp.path \in {"", Canonical}
    /\ \A k \in DOMAIN resp.body :
          /\ resp.body[k] \in BytesOf(Canonical)
          /\ \A f \in (DOMAIN store) \ {Canonical} : resp.body[k] \notin BytesOf(f)

\* another file of the job directory is asked for, and refused
C10_Witness ==
    /\ hpc = "done"
    /\ req.filename = "map.osm"
    /\ "map.osm" \in DOMAIN store
    /\ resp.status = 400

\* the canonical file is asked for with a Range header, and is absent
C10_WitnessMissing ==
    /\ hpc = "done"
    /\ req.filename = Canonical
    /\ req.range # <<>>
    /\ resp.status = 404

(***************************************************************************)
(* The tile partitioner's specification: one call of _compute_tiles with a *)
(* box that passed validate_area and a tile threshold.                     *)
(***************************************************************************)
\* boxes have south = west = 0 and north, east in -MaxTileSpan..MaxTileSpan
MaxTileSpan == 8
\* thresholds are 1..MaxThreshold sixteenths of a square degree
MaxThreshold == 4
\* the grid dimensions the adjustment loop is started from
MaxDim == 4

\* the 4.0 square degree box {44.0, 6.0, 46.0, 8.0} of the specification
ExampleBox == [south |-> 176, west |-> 24, north |-> 184, east |-> 32]

TileBoxes ==
    { b \in [south : {0}, west : {0},
             north : (0 - MaxTileSpan)..MaxTileSpan,
             east : (0 - MaxTileSpan)..MaxTileSpan] : validate_area(b) }
    \cup {ExampleBox}

InitTiles ==
    /\ PipeIdle
    /\ SrvIdle
    /\ limits = "armed"
    /\ api = NoApi
    /\ peer = NoPeer
    /\ client = NoClient
    /\ \E b \in TileBoxes, t \in 1..MaxThreshold :
          tiler = [NoCall EXCEPT !.pc = "entry", !.bbox = b, !.max_tile_area = t]

NextTiles ==
    \/ TilesEntry
    \/ TilesGrow
    \/ TilesAppend
    \/ TilesReturn

SpecTiles == InitTiles /\ [][NextTiles]_vars

\* a call that has started runs to its return
SpecTilesLive == SpecTiles /\ WF_vars(NextTiles)

(***************************************************************************)
(* Reading the partitioner's result.                                       *)
(***************************************************************************)
RatLt(a, b)  == a[1] * b[2] < b[1] * a[2]
RatMax(a, b) == IF RatLe(a, b) THEN b ELSE a
RatSub(a, b) == <<a[1] * b[2] - b[1] * a[2], a[2] * b[2]>>
RatMul(a, b) == <<a[1] * b[1], a[2] * b[2]>>

\* a tile as a region: its lower and upper edge in each direction
LatLo(t) == RatMin(t.south, t.north)
LatHi(t) == RatMax(t.south, t.north)
LonLo(t) == RatMin(t.west, t.east)
LonHi(t) == RatMax(t.west, t.east)

\* |north - south| x |east - west| of a tile
TileArea(t) == RatMul(RatSub(LatHi(t), LatLo(t)), RatSub(LonHi(t), LonLo(t)))

\* region t lies inside region u
Inside(t, u) ==
    /\ RatLe(LatLo(u), LatLo(t)) /\ RatLe(LatHi(t), LatHi(u))
    /\ RatLe(LonLo(u), LonLo(t)) /\ RatLe(LonHi(t), LonHi(u))

\* the intervals between neighbouring values of a set of rationals
Gaps(S) ==
    { g \in S \X S :
        /\ RatLt(g[1], g[2])
        /\ \A x \in S : ~(RatLt(g[1], x) /\ RatLt(x, g[2])) }

\* the union of the tiles is exactly the region of the box: every tile lies
\* inside it, and every cell of the grid drawn through all edges is in a tile
CoversExactly(ts, box) ==
    LET all  == {ts[k] : k \in DOMAIN ts} \cup {box}
        lats == {t.south : t \in all} \cup {t.north : t \in all}
        lons == {t.west : t \in all} \cup {t.east : t \in all}
    IN  /\ \A k \in DOMAIN ts : Inside(ts[k], box)
        /\ \A gy \in Gaps(lats), gx \in Gaps(lons) :
              LET cell == [south |-> gy[1], north |-> gy[2],
                           west |-> gx[1], east |-> gx[2]]
              IN  \E k \in DOMAIN ts : Inside(cell, ts[k])

Returned == tiler.pc = "returned"

(***************************************************************************)
(* C11                                                                     *)
(***************************************************************************)
\* C11: for a validated box whose area |north-south| x |east-west| exceeds
\* the threshold T, the tiles _compute_tiles returns have exactly the box as
\* their union, none has an area above T, and there are at least
\* ceil(area/T) of them (at least 16 for the 4.0 square degree box with
\* T = 0.25).
C11_TilesCover ==
    (Returned /\ area_deg2(tiler.bbox) > tiler.max_tile_area) =>
       /\ CoversExactly(tiler.tiles, AsTile(tiler.bbox))
       /\ \A k \in DOMAIN tiler.tiles :
             RatLe(TileArea(tiler.tiles[k]), Rat(tiler.max_tile_area, 1))
       /\ Len(tiler.tiles) >= CeilDiv(area_deg2(tiler.bbox), tiler.max_tile_area)
       /\ (tiler.bbox = ExampleBox /\ tiler.max_tile_area = OVERPASS_TILE_DEG2)
             => Len(tiler.tiles) >= 16

(***************************************************************************)
(* C12                                                                     *)
(***************************************************************************)
\* C12: for a validated box, _compute_tiles returns the one-element list
\* holding exactly the box if and only if the area |north-south| x
\* |east-west| is at most the threshold T, and then without computing a grid.
C12_SingleIffSmall ==
    Returned =>
       /\ (tiler.tiles = <<AsTile(tiler.bbox)>>)
             <=> (area_deg2(tiler.bbox) <= tiler.max_tile_area)
       /\ area_deg2(tiler.bbox) <= tiler.max_tile_area =>
             tiler.num_tiles = 0 /\ tiler.n_lat = 0 /\ tiler.n_lon = 0

(***************************************************************************)
(* C20                                                                     *)
(***************************************************************************)
InGrid == tiler.pc \in {"loop", "rows"} \/ (Returned /\ tiler.num_tiles > 0)

\* one step of the call, seen from the adjustment loop: an iteration runs
\* only while the grid is too small and increments the smaller dimension
\* alone (n_lat on a tie); the loop is left with the grid as it is
LoopStep ==
    (tiler.pc = "loop" /\ tiler' # tiler) =>
       IF tiler'.pc = "loop"
       THEN /\ tiler.n_lat * tiler.n_lon < tiler.num_tiles
            /\ IF tiler.n_lat <= tiler.n_lon
               THEN tiler'.n_lat = tiler.n_lat + 1 /\ tiler'.n_lon = tiler.n_lon
               ELSE tiler'.n_lat = tiler.n_lat /\ tiler'.n_lon = tiler.n_lon + 1
       ELSE /\ tiler.n_lat * tiler.n_lon >= tiler.num_tiles
            /\ tiler'.n_lat = tiler.n_lat /\ tiler'.n_lon = tiler.n_lon

\* the k-th tile emitted is the tile of row (k-1) div n_lon and column
\* (k-1) mod n_lon, and reaches no further north or east than the box
RowMajor ==
    \A k \in DOMAIN tiler.tiles :
       LET b == tiler.bbox
           i == (k - 1) \div tiler.n_lon
           j == (k - 1) % tiler.n_lon
           t == tiler.tiles[k]
       IN  /\ i < tiler.n_lat
           /\ RatEq(t.south, Rat(b.south * tiler.n_lat + i * (b.north - b.south),
                                 tiler.n_lat))
           /\ RatEq(t.west, Rat(b.west * tiler.n_lon + j * (b.east - b.west),
                                tiler.n_lon))
           /\ RatLe(t.north, Rat(b.north, 1))
           /\ RatLe(t.east, Rat(b.east, 1))

GridRight ==
    InGrid =>
       /\ tiler.n_lat >= 1 /\ tiler.n_lon >= 1
       /\ tiler.num_tiles =
             CeilDiv((tiler.bbox.north - tiler.bbox.south)
                        * (tiler.bbox.east - tiler.bbox.west), tiler.max_tile_area)
       /\ tiler.pc # "loop" =>
             /\ tiler.n_lat * tiler.n_lon >= tiler.num_tiles
             /\ RowMajor
             /\ tiler.pc = "rows" => Len(tiler.tiles) = tiler.i * tiler.n_lon + tiler.j
             /\ Returned => Len(tiler.tiles) = tiler.n_lat * tiler.n_lon
       \* the loop started from any other grid ends with enough cells too
       /\ \A a \in 1..MaxDim, b \in 1..MaxDim :
             LET g == GrowGrid(a, b, tiler.num_tiles)
             IN  g[1] * g[2] >= tiler.num_tiles /\ g[1] >= a /\ g[2] >= b

\* C20: with area > T the adjustment loop, from any grid dimensions of at
\* least 1, increments in each iteration only the currently smaller
\* dimension (n_lat on a tie), terminates, and ends with n_lat * n_lon >=
\* num_tiles = ceil(area/T); then exactly n_lat * n_lon tiles are emitted in
\* row-major order, none reaching past the box's north or east edge.
C20_GridLoop ==
    /\ [][LoopStep]_vars
    /\ []GridRight
    /\ (tiler.pc = "entry") ~> Returned

\* a call on an upright box whose loop ran and that returned an uneven grid
C20_Witness ==
    /\ Returned
    /\ tiler.num_tiles > 0
    /\ tiler.bbox.north > tiler.bbox.south
    /\ tiler.bbox.east > tiler.bbox.west
    /\ <<tiler.n_lat, tiler.n_lon>> #
          FirstDims(tiler.bbox.north - tiler.bbox.south,
                    tiler.bbox.east - tiler.bbox.west, tiler.num_tiles)
    /\ tiler.n_lat # tiler.n_lon
    /\ Len(tiler.tiles) > tiler.num_tiles

(***************************************************************************)
(* celery_app.py: the time limits of a running task                        *)
(***************************************************************************)
\* mutant of task_time_limit: no hard limit is configured
NoTimeLimit == Absent

\* task_time_limit=600 and task_soft_time_limit=540, in seconds
task_time_limit == 600

\* mutant of task_soft_time_limit: no soft limit is configured
NoSoftLimit == Absent

task_soft_time_limit == 540

\* the calls in which a task spends its time: the Overpass request, the two
\* sleeps and the four external tools
BlockingPcs ==
    {"fetching", "retry_sleep", "tile_sleep", "merging", "converting",
     "splitting", "mkgmap_run"}

Running == pc \notin {"queued", "done", "killed", "reaped"}

SoftLimitError ==
    [type |-> "SoftTimeLimitExceeded", text |-> "SoftTimeLimitExceeded()"]
HardLimitError ==
    [type |-> "TimeLimitExceeded", text |-> "TimeLimitExceeded(600)"]

\* the soft limit expires while the task is in a blocking call: the pool
\* signals the task's process
SoftLimitExpires ==
    /\ Running
    /\ pc \in BlockingPcs
    /\ limits = "armed"
    /\ task_soft_time_limit # Absent
    /\ limits' = "soft"
    /\ UNCHANGED <<pipeVars, srvVars, tiler, api, peer, client>>

\* the signal handler raises SoftTimeLimitExceeded inside generate_map,
\* wherever it is; "except Exception as e: raise e" lets it out
SoftLimitRaise ==
    /\ Running
    /\ limits = "soft"
    /\ Raise(SoftLimitError, <<>>)
    /\ UNCHANGED <<bbox, idx, attempt, tile_files, fs, dirs>>
    /\ UNCHANGED <<srvVars, tiler, limits, api, peer, client>>

\* the hard limit expires with the task still in a blocking call: the pool
\* kills the task's process and records the failure itself
HardLimitExpires ==
    /\ Running
    /\ pc \in BlockingPcs
    /\ task_time_limit # Absent
    /\ limits = (IF task_soft_time_limit # Absent
                    /\ task_soft_time_limit < task_time_limit
                 THEN "soft" ELSE "armed")
    /\ limits' = "hard"
    /\ state' = "FAILURE"
    /\ meta' = ErrMeta(HardLimitError)
    /\ pc' = "killed"
    /\ log' = Append(log, Ev("killed", HardLimitError.text, 0, 0, <<>>))
    /\ UNCHANGED <<bbox, idx, attempt, tile_files, fs, dirs>>
    /\ UNCHANGED <<srvVars, tiler, api, peer, client>>

\* the external tool a killed task had started and what it writes: SIGKILL
\* ends the task's process only, and subprocess.run, which would have
\* stopped the tool, died with it
OrphanOutput ==
    LET last == log[Len(log) - 1]
    IN  CASE last.ev = "merge" /\ last.s = "start" -> {MapOsm}
          [] last.ev = "call" /\ last.s = "convert" -> {MapPbf}
          [] last.ev = "mkdir" /\ last.s = "splitter_output" -> {SplitPbf}
          [] last.ev = "mkgmap" -> {ImgPath}
          [] OTHER -> {}

\* the tool of a killed task runs on and writes its output
OrphanWrites ==
    /\ pc = "killed"
    /\ \E p \in OrphanOutput :
          /\ fs' = Put(fs, p, 1)
          /\ log' = Append(log, Ev("orphan", p[1], 0, 1, <<>>))
    /\ pc' = "reaped"
    /\ UNCHANGED <<state, meta, bbox, idx, attempt, tile_files, dirs>>
    /\ UNCHANGED <<srvVars, tiler, limits, api, peer, client>>

(***************************************************************************)
(* The pipeline under its time limits: one job, picked up by a worker.     *)
(***************************************************************************)
\* boxes have south = west = 0, north in 1..MaxLimitSpan and east 1 or 2
MaxLimitSpan == 3

LimitBoxes ==
    { b \in [south : {0}, west : {0},
             north : 1..MaxLimitSpan, east : {1, 2}] : validate_area(b) }

InitLimit ==
    /\ state = "PENDING"
    /\ meta = NoMeta
    /\ pc = "queued"
    /\ bbox \in LimitBoxes
    /\ idx = 0
    /\ attempt = 0
    /\ tile_files = <<>>
    /\ fs = <<>>
    /\ dirs = {}
    /\ log = <<>>
    /\ SrvIdle
    /\ tiler = NoCall
    /\ limits = "armed"
    /\ api = NoApi
    /\ peer = NoPeer
    /\ client = NoClient

\* a step of generate_map
Work == Next

\* a step of generate_map that waits for nothing
Proceed == pc \notin BlockingPcs /\ Next

NextLimit ==
    \/ Work
    \/ SoftLimitExpires
    \/ SoftLimitRaise
    \/ HardLimitExpires
    \/ OrphanWrites

\* statements that wait for nothing are executed, and time passes; a
\* blocking call need not return, and a signal need not be acted upon
SpecLimit ==
    /\ InitLimit
    /\ [][NextLimit]_vars
    /\ WF_vars(Proceed)
    /\ WF_vars(SoftLimitExpires)
    /\ WF_vars(HardLimitExpires)

(***************************************************************************)
(* C16                                                                     *)
(***************************************************************************)
\* the step in which the hard limit expires: the task is inside a blocking
\* call, which does not return, and the job is Failed all the same
HardKill ==
    (limits' = "hard" /\ limits # "hard") =>
       /\ pc \in BlockingPcs
       /\ ~Terminal(PipelineState(state, meta))
       /\ state' = "FAILURE"
       /\ meta' = ErrMeta(HardLimitError)
       /\ log' = Append(log, Ev("killed", HardLimitError.text, 0, 0, <<>>))

\* C16: every job a worker has started reaches a terminal state; a job
\* whose current step never returns is Failed by the hard time limit,
\* without the stuck call returning or raising; no job stays in
\* Downloading, Converting, Splitting or Compiling forever.
C16_Terminates ==
    /\ [][HardKill]_vars
    /\ [](limits = "hard" => state = "FAILURE" /\ meta = ErrMeta(HardLimitError))
    /\ (pc # "queued") ~> Terminal(PipelineState(state, meta))

\* the hard limit ended a job whose Overpass request never returned
C16_Witness ==
    /\ limits = "hard"
    /\ state = "FAILURE"
    /\ IsEv(Len(log) - 1, "fetch", "start")

\* the hard limit ended a job whose splitter never returned
C16_WitnessTool ==
    /\ limits = "hard"
    /\ pc = "killed"
    /\ Has("call", "split")
    /\ ~Has("ret", "split")

(***************************************************************************)
(* C17                                                                     *)
(***************************************************************************)
\* a step that fails the job, or any step of a Failed job, deletes and
\* rewrites nothing: every file and directory is still there, as it was
KeepsFiles ==
    state' = "FAILURE" =>
       /\ \A p \in DOMAIN fs : p \in DOMAIN fs' /\ fs'[p] = fs[p]
       /\ dirs \subseteq dirs'
       /\ pc \in {"done", "killed"} => dirs' = dirs

\* C17: when a job fails at any step its working directory and every file
\* already written in it (raw data, tile files, intermediate and split
\* outputs) are left as they are, and the directory exists in every state
\* after the job is Failed.
C17_FailureKeepsFiles ==
    /\ [][KeepsFiles]_vars
    /\ [](state = "FAILURE" => "job" \in dirs)

\* the compile step failed with tile files, raw data and the converted and
\* split outputs in the job directory
C17_Witness ==
    /\ state = "FAILURE"
    /\ meta.text = MkgmapError.text
    /\ NTiles > 1
    /\ \A i \in 1..NTiles : IsFile(fs, TilePath(i))
    /\ IsFile(fs, MapOsm) /\ IsFile(fs, MapPbf) /\ IsFile(fs, SplitPbf)
    /\ {"job", "tiles", "splitter_output"} \subseteq dirs

\* a tile failed twice after an earlier tile had been written
C17_WitnessDownload ==
    /\ state = "FAILURE"
    /\ meta.text = UpstreamError.text
    /\ IsFile(fs, TilePath(1))

(***************************************************************************)
(* schemas.py: the BBox field validators.  routes.py: start_generation and *)
(* get_status, statement by statement.                                     *)
(***************************************************************************)
\* 90 and 180 degrees on the grid of quarter degrees
LatLimit == 360
LonLimit == 720

\* BBox.validate_lat, validate_lon: TRUE iff no ValueError is raised
validate_lat(v) == ~(~(0 - LatLimit <= v /\ v <= LatLimit))
validate_lon(v) == ~(~(0 - LonLimit <= v /\ v <= LonLimit))

\* "req: GenerateRequest": the framework builds the request model, running
\* the field validators, before it calls the handler
FieldsValid(b) ==
    /\ validate_lat(b.south) /\ validate_lat(b.north)
    /\ validate_lon(b.west) /\ validate_lon(b.east)

\* BBox.validate_area: the message of the ValueError it raises, "" if none
area_error(b) ==
    LET area == area_deg2(b)
    IN  IF area > MAX_BBOX_AREA_DEG2 THEN "exceeds maximum"
        ELSE IF area < 1 THEN "Selected area is too small."
        ELSE ""

\* the framework's answer to a request model that does not validate (no
\* exception handler is installed in main.py), and HTTPException(400)
Unprocessable == [NoBody EXCEPT !.code = 422, !.detail = "value_error"]
BadRequest(detail) == [NoBody EXCEPT !.code = 400, !.detail = detail]

\* GenerateResponse(job_id=result.id, status="queued")
GenerateResponse(job_id) ==
    [NoBody EXCEPT !.code = 200, !.job_id = job_id, !.status = "queued"]

\* no request is being handled
ApiFree == api.hpc \in {"idle", "done"} /\ hpc \in {"idle", "done"}

\* the job the model follows has not been enqueued yet
NoJob == pc = "none"

\* mutant of Enqueues: the upper bound of the area is exclusive
EnqueuesBelowMax(b) == FieldsValid(b) /\ area_error(b) = "" /\ area_deg2(b) < MAX_BBOX_AREA_DEG2

\* start_generation reaches generate_map.delay
Enqueues(b) == FieldsValid(b) /\ area_error(b) = ""

\* POST /generate with a bounding box: request validation, validate_area,
\* generate_map.delay, the response
StartGeneration(box) ==
    /\ ApiFree
    /\ NoJob
    /\ IF Enqueues(box)
       THEN /\ pc' = "queued"
            /\ bbox' = box
            /\ api' = [NoApi EXCEPT !.hpc = "done", !.kind = "generate",
                                    !.box = box, !.job_id = "job",
                                    !.resp = GenerateResponse("job"),
                                    !.enqueued = 1, !.last = api.last]
       ELSE /\ api' = [NoApi EXCEPT !.hpc = "done", !.kind = "generate",
                                    !.box = box,
                                    !.resp = IF ~FieldsValid(box)
                                             THEN Unprocessable
                                             ELSE BadRequest(area_error(box)),
                                    !.last = api.last]
            /\ UNCHANGED <<pc, bbox>>
    /\ UNCHANGED <<state, meta, idx, attempt, tile_files, fs, dirs, log>>
    /\ UNCHANGED <<srvVars, tiler, limits, peer, client>>

\* generate_map.AsyncResult(job_id).state and .info: each access reads the
\* backend again until the task is ready; an id the backend holds no record
\* of reads as PENDING with no info
TaskState(job_id) == IF job_id = "job" THEN state ELSE "PENDING"
TaskInfo(job_id)  == IF job_id = "job" THEN meta ELSE NoMeta

\* result.state.lower()
Lower(st) ==
    CASE st = "PENDING" -> "pending"
      [] st = "STARTED" -> "started"
      [] st = "PROGRESS" -> "progress"
      [] st = "SUCCESS" -> "success"
      [] st = "FAILURE" -> "failure"
      [] OTHER -> st

\* info.get("step", "") where info has no "step"
EmptyProgress == StepMeta("", 0, 0)

\* the JobStatus bodies get_status builds
QueuedStatus(job_id) ==
    [NoBody EXCEPT !.code = 200, !.job_id = job_id, !.status = "queued"]
ProcessingStatus(job_id, step) ==
    [NoBody EXCEPT !.code = 200, !.job_id = job_id, !.status = "processing",
                   !.progress = step]
CompletedStatus(job_id, file_size) ==
    [NoBody EXCEPT !.code = 200, !.job_id = job_id, !.status = "completed",
                   !.filename = "gmapsupp.img", !.file_size = file_size]
\* mutant of FailedStatus: the failed job's body names the artifact
FailedStatusWithFile(job_id, error) ==
    [NoBody EXCEPT !.code = 200, !.job_id = job_id, !.status = "failed",
                   !.error = error, !.filename = "gmapsupp.img"]
FailedStatus(job_id, error) ==
    [NoBody EXCEPT !.code = 200, !.job_id = job_id, !.status = "failed",
                   !.error = error]
OtherStatus(job_id, st) ==
    [NoBody EXCEPT !.code = 200, !.job_id = job_id, !.status = Lower(st)]
\* an exception leaves the handler
ServerError(detail) == [NoBody EXCEPT !.code = 500, !.detail = detail]

\* where a poller stands after a response: the rank of the pipeline state
\* it was told; a body that names none leaves it where it was
Told(body, before) ==
    CASE body.status \in {"queued", "started"} -> 0
      [] body.status = "processing" /\ body.progress # EmptyProgress ->
             Rank(PipelineState("PROGRESS", body.progress))
      [] body.status = "completed" -> Rank("Completed")
      [] body.status = "failed" -> Rank("Failed")
      [] OTHER -> before

\* the handler returns body
Reply(body) ==
    api' = [api EXCEPT !.hpc = "done", !.resp = body,
                       !.last = IF api.job_id = "job"
                                THEN Told(body, api.last) ELSE api.last]

\* the handler goes on to its next test
Goto(position) == api' = [api EXCEPT !.hpc = position]

\* GET /status/{job_id}: result = generate_map.AsyncResult(job_id)
StatusRequest(job_id) ==
    /\ ApiFree
    /\ api' = [NoApi EXCEPT !.hpc = "if_pending", !.kind = "status",
                            !.job_id = job_id,
                            !.at_start = TaskState(job_id),
                            !.last = api.last]
    /\ UNCHANGED <<pipeVars, srvVars, tiler, limits, peer, client>>

\* if result.state == "PENDING"
StatusPending ==
    /\ api.hpc = "if_pending"
    /\ IF TaskState(api.job_id) = "PENDING"
       THEN Reply(QueuedStatus(api.job_id))
       ELSE Goto("elif_progress")
    /\ UNCHANGED <<pipeVars, srvVars, tiler, limits, peer, client>>

\* elif result.state == "PROGRESS"
StatusProgress ==
    /\ api.hpc = "elif_progress"
    /\ IF TaskState(api.job_id) = "PROGRESS"
       THEN Goto("info")
       ELSE Goto("elif_success")
    /\ UNCHANGED <<pipeVars, srvVars, tiler, limits, peer, client>>

\* info = result.info or {}; progress=info.get("step", ""): the info of a
\* task that failed meanwhile is the exception, which has no get
StatusInfo ==
    /\ api.hpc = "info"
    /\ LET info == TaskInfo(api.job_id)
       IN  CASE info.kind = "step" -> Reply(ProcessingStatus(api.job_id, info))
             [] info.kind = "error" -> Reply(ServerError("AttributeError"))
             [] OTHER -> Reply(ProcessingStatus(api.job_id, EmptyProgress))
    /\ UNCHANGED <<pipeVars, srvVars, tiler, limits, peer, client>>

\* elif result.state == "SUCCESS": isfile, getsize, the body
StatusSuccess ==
    /\ api.hpc = "elif_success"
    /\ IF TaskState(api.job_id) = "SUCCESS"
       THEN Reply(CompletedStatus(
                api.job_id,
                IF api.job_id = "job" /\ IsFile(fs, ImgPath)
                THEN fs[ImgPath] ELSE Absent))
       ELSE Goto("elif_failure")
    /\ UNCHANGED <<pipeVars, srvVars, tiler, limits, peer, client>>

\* elif result.state == "FAILURE": error=str(result.info)
StatusFailure ==
    /\ api.hpc = "elif_failure"
    /\ IF TaskState(api.job_id) = "FAILURE"
       THEN Reply(FailedStatus(api.job_id, TaskInfo(api.job_id).text))
       ELSE Goto("else")
    /\ UNCHANGED <<pipeVars, srvVars, tiler, limits, peer, client>>

\* else: status=result.state.lower()
StatusOther ==
    /\ api.hpc = "else"
    /\ Reply(OtherStatus(api.job_id, TaskState(api.job_id)))
    /\ UNCHANGED <<pipeVars, srvVars, tiler, limits, peer, client>>

\* mutant of DirOf: the artifact is looked for only when the job completed
DirOfCompleted(job_id) ==
    IF job_id = "job" /\ state = "SUCCESS" /\ IsFile(fs, ImgPath)
    THEN [f \in {"gmapsupp.img"} |-> Content("gmapsupp.img", fs[ImgPath])]
    ELSE <<>>

\* os.path.join(DATA_DIR, job_id, filename) as download_file finds it: of
\* the job's files the filename check lets it look at the artifact only
DirOf(job_id) ==
    IF job_id = "job" /\ IsFile(fs, ImgPath)
    THEN [f \in {"gmapsupp.img"} |-> Content("gmapsupp.img", fs[ImgPath])]
    ELSE <<>>

\* GET /download/{job_id}/{filename}
DownloadRequest(job_id, filename, range) ==
    /\ ApiFree
    /\ api' = [NoApi EXCEPT !.kind = "download", !.job_id = job_id,
                            !.at_start = TaskState(job_id),
                            !.last = api.last]
    /\ store' = DirOf(job_id)
    /\ req' = [filename |-> filename, range |-> range]
    /\ resp' = NoResp
    /\ iter' = [pos |-> 0, remaining |-> 0]
    /\ trace' = <<>>
    /\ hpc' = "check_name"
    /\ UNCHANGED <<pipeVars, tiler, limits, peer, client>>

(***************************************************************************)
(* start_generation alone: one request, no worker running.                 *)
(***************************************************************************)
\* coordinates are the limits, one step beyond them, and 0..MaxGenSpan
MaxGenSpan == 9

GenLats == {0 - LatLimit - 1, 0 - LatLimit, LatLimit, LatLimit + 1} \cup 0..MaxGenSpan
GenLons == {0 - LonLimit - 1, 0 - LonLimit, LonLimit, LonLimit + 1} \cup 0..MaxGenSpan

GenBoxes == [south : GenLats, west : GenLons, north : GenLats, east : GenLons]

InitApi ==
    /\ state = "PENDING"
    /\ meta = NoMeta
    /\ pc = "none"
    /\ bbox = NoApi.box
    /\ idx = 0
    /\ attempt = 0
    /\ tile_files = <<>>
    /\ fs = <<>>
    /\ dirs = {}
    /\ log = <<>>
    /\ SrvIdle
    /\ tiler = NoCall
    /\ limits = "armed"
    /\ api = NoApi
    /\ peer = NoPeer
    /\ client = NoClient

\* the first request the server receives
Generate == api.hpc = "idle" /\ \E box \in GenBoxes : StartGeneration(box)

SpecGen == InitApi /\ [][Generate]_vars

(***************************************************************************)
(* The API beside the worker: requests one at a time, one job.             *)
(***************************************************************************)
\* a one-tile box, a two-tile box, a box of no area and a latitude out of
\* range
ApiBoxes ==
    {[south |-> 0, west |-> 0, north |-> 1, east |-> 1],
     [south |-> 0, west |-> 0, north |-> 3, east |-> 2],
     [south |-> 0, west |-> 0, north |-> 0, east |-> 1],
     [south |-> 0, west |-> 0, north |-> LatLimit + 1, east |-> 1]}

\* the job's id and an id no job was given
JobIds == {"job", "ghost"}

GenerateJob == \E box \in ApiBoxes : StartGeneration(box)

Poll == \E job_id \in JobIds : StatusRequest(job_id)

Fetch ==
    \E job_id \in JobIds, filename \in {"gmapsupp.img", "map.osm"},
       range \in {<<>>, BytesEq \o <<"0", "-">>} :
          DownloadRequest(job_id, filename, range)

NextApi ==
    \/ GenerateJob
    \/ Work
    \/ Poll
    \/ StatusPending
    \/ StatusProgress
    \/ StatusInfo
    \/ StatusSuccess
    \/ StatusFailure
    \/ StatusOther
    \/ Fetch
    \/ CheckName
    \/ CheckFile
    \/ Respond
    \/ NextChunk

SpecApi == InitApi /\ [][NextApi]_vars

(***************************************************************************)
(* C13                                                                     *)
(***************************************************************************)
GenDone == api.kind = "generate" /\ api.hpc = "done"

\* every coordinate in range and minArea <= area <= maxArea
PassesValidation(b) ==
    /\ {b.south, b.north} \subseteq (0 - LatLimit)..LatLimit
    /\ {b.west, b.east} \subseteq (0 - LonLimit)..LonLimit
    /\ 1 <= area_deg2(b)
    /\ area_deg2(b) <= MAX_BBOX_AREA_DEG2

\* the request enqueued exactly one job, the one it names as queued
EnqueuedOne ==
    /\ api.enqueued = 1
    /\ pc = "queued" /\ bbox = api.box
    /\ api.resp = [NoBody EXCEPT !.code = 200, !.job_id = "job",
                                 !.status = "queued"]

\* the request enqueued nothing and made no directory
EnqueuedNone == api.enqueued = 0 /\ pc = "none" /\ dirs = {} /\ fs = <<>>

C13_WitnessTooLarge ==
    /\ GenDone
    /\ FieldsValid(api.box)
    /\ area_deg2(api.box) > MAX_BBOX_AREA_DEG2
    /\ area_deg2(api.box) <= MAX_BBOX_AREA_DEG2 + MaxGenSpan
    /\ api.resp = BadRequest("exceeds maximum")

\* a box of no area and a box with a latitude out of range were refused
C13_WitnessTooSmall ==
    GenDone /\ area_deg2(api.box) = 0 /\ api.resp.code = 400
C13_WitnessOutOfRange ==
    /\ GenDone
    /\ api.box.north = LatLimit + 1
    /\ area_error(api.box) = ""
    /\ api.resp.code = 422

(***************************************************************************)
(* C14                                                                     *)
(***************************************************************************)
StatusDone == api.kind = "status" /\ api.hpc = "done"

\* C14: a get_status response carries a filename or a file size only when
\* the job's queue state is SUCCESS; the response for a job that was Failed
\* when the request arrived is status "failed" with the recorded error
\* string and neither filename nor file size; the response for a job that
\* was Completed carries the canonical filename and the artifact's size.
C14_NoArtifactUnlessCompleted ==
    StatusDone =>
       /\ (api.resp.filename # "" \/ api.resp.file_size # Absent) =>
              TaskState(api.job_id) = "SUCCESS"
       /\ api.at_start = "FAILURE" =>
              api.resp = [NoBody EXCEPT !.code = 200, !.job_id = api.job_id,
                                        !.status = "failed",
                                        !.error = meta.text]
       /\ api.at_start = "SUCCESS" =>
              /\ api.resp.status = "completed"
              /\ api.resp.filename = Canonical
              /\ IsFile(fs, ImgPath)
              /\ api.resp.file_size = fs[ImgPath]
              /\ api.resp.error = ""

\* a poll of a job that failed in the compile step, its files on disk
C14_Witness ==
    /\ StatusDone
    /\ api.at_start = "FAILURE"
    /\ api.resp.error = MkgmapError.text
    /\ IsFile(fs, MapPbf)

\* a poll of a completed job
C14_WitnessCompleted ==
    StatusDone /\ api.at_start = "SUCCESS" /\ api.resp.file_size = 1

(***************************************************************************)
(* C15                                                                     *)
(***************************************************************************)
\* the body that states the job's record as it is now
Render(job_id) ==
    CASE TaskState(job_id) = "PENDING" -> QueuedStatus(job_id)
      [] TaskState(job_id) = "PROGRESS" ->
             ProcessingStatus(job_id, TaskInfo(job_id))
      [] TaskState(job_id) = "SUCCESS" ->
             CompletedStatus(job_id, FileSize(fs, ImgPath))
      [] TaskState(job_id) = "FAILURE" ->
             FailedStatus(job_id, TaskInfo(job_id).text)
      [] OTHER -> OtherStatus(job_id, TaskState(job_id))

\* a poll of the job returns: its body states the record the job emitted
\* last, and the poller is told nothing earlier than it was told before
PollReturns ==
    (api.kind = "status" /\ api.job_id = "job"
     /\ api.hpc \notin {"idle", "done"} /\ api'.hpc = "done") =>
       /\ api'.resp = Render("job")
       /\ Told(api'.resp, api.last) >= api.last

\* C15: each poll returns the state the job emitted most recently, so a
\* poller sees the emitted states in the order of their emission, with
\* repeats and gaps: never an earlier step after a later one, nor queued or
\* processing after completed or failed.
C15_PollsInOrder == [][PollReturns]_vars

(***************************************************************************)
(* C19                                                                     *)
(***************************************************************************)
\* no job was ever enqueued under this id
NeverEnqueued(job_id) == job_id = "ghost" \/ (job_id = "job" /\ NoJob)

\* C19: a request that names a job id never enqueued is answered 404, by
\* get_status and by download_file with the canonical filename.
C19_UnknownJob404 ==
    /\ (StatusDone /\ NeverEnqueued(api.job_id)) => api.resp.code = 404
    /\ (api.kind = "download" /\ hpc = "done" /\ req.filename = Canonical
        /\ NeverEnqueued(api.job_id)) => resp.status = 404

(***************************************************************************)
(* Two jobs on two workers.  The first worker is the one modelled above;   *)
(* fs and dirs are what lies in the directory it works in.  The second     *)
(* worker runs the same generate_map for another job id, reduced to the    *)
(* file operations it performs, each on os.path.join(job_dir, name).       *)
(***************************************************************************)
DATA_DIR == "/data/jobs"

\* the second job's id (self.request.id)
PeerId == "peer"

\* mutant of job_dir: the job id is left out of the path
job_dir_shared(id) == <<DATA_DIR>>

\* job_dir = os.path.join(DATA_DIR, self.request.id)
job_dir(id) == <<DATA_DIR, id>>

\* os.path.join(directory, name)
Join(directory, name) == <<directory, name>>

\* the file operations of generate_map, in order: directories made, files
\* written, and the position after them
PeerOps ==
    [queued   |-> [mk |-> {"job"}, put |-> {}, next |-> "download"],
     download |-> [mk |-> {}, put |-> {MapOsm}, next |-> "convert"],
     convert  |-> [mk |-> {}, put |-> {MapPbf}, next |-> "split"],
     split    |-> [mk |-> {"splitter_output"}, put |-> {SplitPbf, TemplateArgs},
                   next |-> "compile"],
     compile  |-> [mk |-> {}, put |-> {ImgPath}, next |-> "check"]]

\* f with every path of ps written
PutAll(f, ps) == [q \in (DOMAIN f) \cup ps |-> IF q \in ps THEN 1 ELSE f[q]]

\* the file system under DATA_DIR: a path in the directory the first worker
\* uses is a file of fs, any other path a file of peer.files
InFirst(directory) == directory = job_dir("job")

\* the second worker carries out one step of generate_map
PeerStep ==
    /\ peer.pc \in DOMAIN PeerOps
    /\ LET op == PeerOps[peer.pc]
           d  == job_dir(PeerId)
       IN  IF InFirst(d)
           THEN /\ fs' = PutAll(fs, op.put)
                /\ dirs' = dirs \cup op.mk
                /\ peer' = [peer EXCEPT !.pc = op.next]
           ELSE /\ peer' = [peer EXCEPT
                              !.pc = op.next,
                              !.files = PutAll(@, {Join(d, p) : p \in op.put}),
                              !.dirs = @ \cup {Join(d, n) : n \in op.mk}]
                /\ UNCHANGED <<fs, dirs>>
    /\ UNCHANGED <<state, meta, pc, bbox, idx, attempt, tile_files, log>>
    /\ UNCHANGED <<srvVars, tiler, limits, api, client>>

\* a step of the second worker raises
PeerFails ==
    /\ peer.pc \in {"download", "convert", "split", "compile"}
    /\ peer' = [peer EXCEPT !.pc = "done"]
    /\ UNCHANGED <<pipeVars, srvVars, tiler, limits, api, client>>

\* the second worker's artifact check: os.path.isfile(img_path)
PeerCheck ==
    /\ peer.pc = "check"
    /\ LET d == job_dir(PeerId)
       IN  peer' = [peer EXCEPT
                      !.pc = "done",
                      !.seen = IF InFirst(d) THEN FileSize(fs, ImgPath)
                               ELSE FileSize(peer.files, Join(d, ImgPath))]
    /\ UNCHANGED <<pipeVars, srvVars, tiler, limits, api, client>>

\* the first job's box: one tile or two
JobBoxes ==
    {[south |-> 0, west |-> 0, north |-> 1, east |-> 1],
     [south |-> 0, west |-> 0, north |-> 3, east |-> 2]}

\* polls of the first job and downloads of its artifact
PollJob == StatusRequest("job")
FetchJob == DownloadRequest("job", "gmapsupp.img", <<>>)

InitJobs ==
    /\ state = "PENDING"
    /\ meta = NoMeta
    /\ pc = "queued"
    /\ bbox \in JobBoxes
    /\ idx = 0
    /\ attempt = 0
    /\ tile_files = <<>>
    /\ fs = <<>>
    /\ dirs = {}
    /\ log = <<>>
    /\ SrvIdle
    /\ tiler = NoCall
    /\ limits = "armed"
    /\ api = [NoApi EXCEPT !.enqueued = 1]
    /\ peer = [NoPeer EXCEPT !.pc = "queued"]
    /\ client = NoClient

NextJobs ==
    \/ Work
    \/ PeerStep
    \/ PeerFails
    \/ PeerCheck
    \/ PollJob
    \/ StatusPending
    \/ StatusProgress
    \/ StatusInfo
    \/ StatusSuccess
    \/ StatusFailure
    \/ StatusOther
    \/ FetchJob
    \/ CheckName
    \/ CheckFile
    \/ Respond

SpecJobs == InitJobs /\ [][NextJobs]_vars

(***************************************************************************)
(* C18                                                                     *)
(***************************************************************************)
\* the directory named by a job's id
OwnDir(id) == <<"/data/jobs", id>>

\* a step of a worker changes nothing in the other job's directory, and a
\* step of a handler changes no file and no directory
StaysInside ==
    /\ peer.pc' # peer.pc => fs' = fs /\ dirs' = dirs
    /\ pc' # pc => peer.files' = peer.files /\ peer.dirs' = peer.dirs
    /\ (api' # api \/ srvVars' # srvVars) =>
          /\ fs' = fs /\ dirs' = dirs
          /\ peer.files' = peer.files /\ peer.dirs' = peer.dirs

\* every file and directory lies in the directory of the job that made it
\* and the second worker read its own artifact
InOwnDirs ==
    /\ (fs # <<>> \/ dirs # {}) => job_dir("job") = OwnDir("job")
    /\ \A q \in DOMAIN peer.files : q[1] = OwnDir(PeerId)
    /\ \A q \in peer.dirs : q[1] = OwnDir(PeerId)
    /\ peer.seen = (IF peer.pc = "done" /\ Join(OwnDir(PeerId), ImgPath) \in DOMAIN peer.files
                    THEN 1 ELSE Absent)

\* C18: with two jobs of distinct ids running on independent workers, every
\* file a job creates, writes or reads lies in the directory named by its
\* own id, so no interleaving lets one job touch the other's directory; the
\* status and download handlers change nothing in a job directory.
C18_JobsConfined == [][StaysInside]_vars /\ []InOwnDirs

\* both jobs ran to their artifact, side by side, and the artifact of the
\* first was downloaded
C18_Witness ==
    /\ state = "SUCCESS"
    /\ peer.pc = "done" /\ peer.seen = 1
    /\ {MapOsm, MapPbf, SplitPbf, ImgPath} \subseteq DOMAIN fs
    /\ \A p \in {MapOsm, MapPbf, SplitPbf, ImgPath} :
          Join(OwnDir(PeerId), p) \in DOMAIN peer.files
    /\ api.kind = "download" /\ hpc = "done" /\ resp.status = 200

\* both workers in the middle of their jobs while a poll is answered
C18_WitnessMidway ==
    /\ pc = "converting"
    /\ peer.pc = "split"
    /\ StatusDone /\ api.resp.status = "processing"

(***************************************************************************)
(* C21                                                                     *)
(***************************************************************************)
\* the soft limit expires in this step
SoftExpiry == limits = "armed" /\ limits' = "soft"

\* the soft limit has no effect: its expiry changes neither the job's state
\* nor its step, and no job is Failed with the soft limit's exception
SoftIgnored ==
    /\ SoftExpiry => UNCHANGED <<state, meta, pc>>
    /\ (Running /\ state' = "FAILURE" /\ limits' # "hard") =>
          meta'.type # SoftLimitError.type

SoftActedUpon ==
    /\ SoftExpiry => Running /\ UNCHANGED pipeVars
    /\ (meta' # meta /\ meta' = ErrMeta(SoftLimitError)) =>
          /\ limits = "soft" /\ limits' = "soft"
          /\ Running
          /\ state' = "FAILURE" /\ pc' = "done"
          /\ fs' = fs /\ dirs' = dirs
    /\ (limits' = "hard" /\ limits # "hard") =>
          /\ limits = "soft"
          /\ Running
          /\ state' = "FAILURE" /\ meta' = ErrMeta(HardLimitError)

MaxResume == 4

\* str(n) for n >= 0: the decimal digits of n
DigitChar(d) == CHOOSE c \in Digits : DigitVal(c) = d
RECURSIVE Decimal(_)
Decimal(n) ==
    IF n < 10 THEN <<DigitChar(n)>>
    ELSE Decimal(n \div 10) \o <<DigitChar(n % 10)>>

\* the Range header for bytes first..last, or from first on
RangeHeader(first, last, open) ==
    BytesEq \o Decimal(first) \o <<"-">> \o (IF open THEN <<>> ELSE Decimal(last))

\* GET /download/{job_id}/gmapsupp.img with the given Range header
ClientSends(range) ==
    /\ hpc = "idle"
    /\ req' = [filename |-> "gmapsupp.img", range |-> range]
    /\ resp' = NoResp
    /\ iter' = [pos |-> 0, remaining |-> 0]
    /\ trace' = <<>>
    /\ hpc' = "check_name"
    /\ UNCHANGED store

\* the request without Range
ClientWhole ==
    /\ client.phase = "start"
    /\ ClientSends(<<>>)
    /\ client' = [client EXCEPT !.phase = "whole"]
    /\ UNCHANGED <<pipeVars, tiler, limits, api, peer>>

\* the full response has arrived: the client keeps the file and its size
ClientKeeps ==
    /\ client.phase = "whole"
    /\ hpc = "done"
    /\ resp.status = 200
    /\ client' = [client EXCEPT !.phase = "parts", !.whole = resp.body,
                                !.size = resp.content_length]
    /\ hpc' = "idle"
    /\ UNCHANGED <<store, req, resp, iter, trace>>
    /\ UNCHANGED <<pipeVars, tiler, limits, api, peer>>

\* the next range: from the first byte the client lacks to any later byte,
\* or to the end of the file
ClientRange ==
    /\ client.phase = "parts"
    /\ Len(client.have) < client.size
    /\ \E last \in Len(client.have)..(client.size - 1), open \in BOOLEAN :
          /\ open => last = client.size - 1
          /\ ClientSends(RangeHeader(Len(client.have), last, open))
          /\ client' = [client EXCEPT !.phase = "part", !.last = last]
    /\ UNCHANGED <<pipeVars, tiler, limits, api, peer>>

\* a partial response has arrived: the client appends its bytes
ClientAppends ==
    /\ client.phase = "part"
    /\ hpc = "done"
    /\ resp.status = 206
    /\ client' = [client EXCEPT !.phase = "parts",
                                !.have = client.have \o resp.body,
                                !.parts = client.parts + 1]
    /\ hpc' = "idle"
    /\ UNCHANGED <<store, req, resp, iter, trace>>
    /\ UNCHANGED <<pipeVars, tiler, limits, api, peer>>

ResumeStores ==
    {[f \in {"gmapsupp.img"} |-> Content("gmapsupp.img", n)] : n \in 2..MaxResume}

InitResume ==
    /\ PipeIdle
    /\ store \in ResumeStores
    /\ req = [filename |-> "", range |-> <<>>]
    /\ hpc = "idle"
    /\ resp = NoResp
    /\ iter = [pos |-> 0, remaining |-> 0]
    /\ trace = <<>>
    /\ tiler = NoCall
    /\ limits = "armed"
    /\ api = NoApi
    /\ peer = NoPeer
    /\ client = [NoClient EXCEPT !.phase = "start"]

NextResume ==
    \/ ClientWhole
    \/ ClientKeeps
    \/ ClientRange
    \/ ClientAppends
    \/ CheckName
    \/ CheckFile
    \/ Respond
    \/ NextChunk

SpecResume == InitResume /\ [][NextResume]_vars

(***************************************************************************)
(* C22                                                                     *)
(***************************************************************************)
\* C22: for an unchanged artifact of S >= 2 bytes, the bytes streamed for
\* bytes=0-(k-1) followed by those for bytes=k- are the file a request
\* without Range returns, for every 0 < k < S; and the responses to any
\* sequence of adjacent ranges covering [0, S-1] are all accepted and
\* concatenate to exactly that file, no byte twice and none missing.
C22_Resumable ==
    client.phase \in {"parts", "part"} =>
       /\ client.whole = store["gmapsupp.img"]
       /\ client.size = Len(client.whole)
       /\ Len(client.have) <= client.size
       /\ client.have = SubSeq(client.whole, 1, Len(client.have))
       /\ (client.phase = "part" /\ hpc = "done") =>
             /\ resp.status = 206
             /\ resp.body = SubSeq(client.whole, Len(client.have) + 1,
                                   client.last + 1)
       /\ (client.phase = "parts" /\ client.parts > 0) =>
             Len(client.have) = client.last + 1

\* the file was put together from bytes=0-(k-1) and bytes=k-
C22_Witness ==
    /\ client.phase = "parts"
    /\ client.parts = 2
    /\ client.size > 2
    /\ client.have = client.whole
    /\ req.range = RangeHeader(2, client.size - 1, TRUE)

\* the file was put together from more than two closed ranges
C22_WitnessMany ==
    /\ client.phase = "parts"
    /\ client.parts > 2
    /\ client.have = store["gmapsupp.img"]
    /\ req.range = RangeHeader(client.size - 1, client.size - 1, FALSE)

(***************************************************************************)
(* Downloads beside a job under its time limits: the artifact may be there *)
(* while the job is compiling, after it completed, and after it failed.    *)
(***************************************************************************)
NextServe ==
    \/ Work
    \/ SoftLimitExpires
    \/ SoftLimitRaise
    \/ HardLimitExpires
    \/ OrphanWrites
    \/ Fetch
    \/ CheckName
    \/ CheckFile
    \/ Respond
    \/ NextChunk

SpecServe == InitLimit /\ [][NextServe]_vars

(***************************************************************************)
(* C23                                                                     *)
(***************************************************************************)
\* the response as a function of the filename, the files of the job
\* directory and the Range header
Outcome(filename, directory, range) ==
    IF filename # "gmapsupp.img" THEN [status |-> 400, body |-> <<>>]
    ELSE IF filename \notin DOMAIN directory THEN [status |-> 404, body |-> <<>>]
    ELSE LET file == directory[filename]
             r == _parse_range(range, Len(file))
         IN  IF range = <<>> THEN [status |-> 200, body |-> file]
             ELSE IF ~r.ok THEN [status |-> r.status, body |-> <<>>]
             ELSE [status |-> 206, body |-> SubSeq(file, r.start + 1, r.end + 1)]

\* the artifact in the directory named by job_id, if there is one
ArtifactOnDisk(job_id) ==
    IF job_id = "job" /\ ImgPath \in DOMAIN fs
    THEN [f \in {"gmapsupp.img"} |-> Content("gmapsupp.img", fs[ImgPath])]
    ELSE <<>>

Downloaded == api.kind = "download" /\ hpc = "done"

\* a download request arrives: what the handler will find is what is on
\* disk, whatever the job's state
FindsDisk ==
    (hpc' = "check_name" /\ hpc # "check_name") =>
       store' = ArtifactOnDisk(api'.job_id)

\* the response of a finished download is the outcome for its filename,
\* the files found and its Range header
OutcomeOnly ==
    Downloaded =>
       [status |-> resp.status, body |-> resp.body]
          = Outcome(req.filename, store, req.range)

\* C23: the outcome of download_file is a function of the filename, of the
\* presence and size of the file in the job directory and of the Range
\* header only, never of the job's state: states that differ in the job's
\* state alone get the same response, and a gmapsupp.img in the directory
\* of a job that is not Completed is served.
C23_IgnoresJobState == [][FindsDisk]_vars /\ []OutcomeOnly

\* the artifact of a Failed job was served whole
C23_Witness ==
    /\ Downloaded
    /\ api.at_start = "FAILURE"
    /\ state = "FAILURE"
    /\ req.filename = "gmapsupp.img"
    /\ resp.status = 200
    /\ resp.body = Content("gmapsupp.img", fs[ImgPath])
    /\ Len(resp.body) > 0

\* the artifact of a job still compiling was served, whole and in part
C23_WitnessCompiling ==
    /\ Downloaded
    /\ api.at_start = "PROGRESS"
    /\ pc = "artifact_check"
    /\ resp.status \in {200, 206}
    /\ Len(resp.body) > 0

\* the artifact of a Completed job was served
C23_WitnessCompleted ==
    Downloaded /\ api.at_start = "SUCCESS" /\ resp.status = 206

====
